---- MODULE Spec2Model ----
(***************************************************************************)
(* A model of stginga/utils.py: the DQ flag parser (DQParser), the robust  *)
(* statistic (calc_stat), bad pixel interpolation (interpolate_badpix),    *)
(* the rescaling of a WCS and of an image (scale_wcs, scale_image) and the *)
(* DQ aware rescaling of an image (scale_image_with_dq); and of the cache  *)
(* of pixel masks of the DQInspect plugin (plugins/DQInspect.py).          *)
(*                                                                         *)
(* Every function of utils.py is synchronous.  A call is modelled by an    *)
(* action that draws the call's inputs from bounded sets and records the   *)
(* call (its inputs, its outcome) in the state.  The library functions     *)
(* utils.py calls (astropy's ascii.read, sigma_clip and convolve_fft,      *)
(* scipy's griddata and zoom) are modelled by their documented behaviour;  *)
(* where that behaviour is left open by the library (the order a sort      *)
(* gives to equal keys, an interpolant's value) the model allows every     *)
(* outcome.  Floating point values are modelled as exact rationals.        *)
(***************************************************************************)
EXTENDS Integers, Sequences, FiniteSets, TLC

VARIABLES
    tab,      \* DQParser.tab: the rows of the definition table, or <<>>
    parser,   \* "none" | "ready" | "failed": the outcome of DQParser(...)
    deffile,  \* the definition file the parser was constructed from
    dqcall,   \* the last interpret_array / interpret_dqval call and its result
    stat,     \* the last calc_stat call and its result
    interp,   \* the last interpolate_badpix call and its result
    wcscall,  \* the last scale_wcs call (and its round trip) and its result
    imcall,   \* the last scale_image call and its result
    plugin,   \* DQInspect: the plugin, the image shown and the DQ image
    pc,       \* scale_image_with_dq: the step the call has reached
    args,     \* scale_image_with_dq: the arguments and the files of the call
    hdr,      \* scale_image_with_dq: hdr, the science header as loaded
    data,     \* scale_image_with_dq: data, the science array (repaired in place)
    dq,       \* scale_image_with_dq: dq, the DQ array
    badpix_mask,    \* scale_image_with_dq: badpix_mask
    smoothed_data,  \* scale_image_with_dq: smoothed_data
    zoomed,   \* scale_image_with_dq: data after "data = zoom(data, zoom_factor)"
    outhdr,   \* scale_image_with_dq: outhdr
    outfile,  \* the output file: whether it exists, what it holds, writes made
    err       \* scale_image_with_dq: the exception that ended the call, or "none"

dqvars == <<tab, parser, deffile, dqcall>>
scalevars == <<pc, args, hdr, data, dq, badpix_mask, smoothed_data, zoomed,
               outhdr, outfile, err>>
vars == <<tab, parser, deffile, dqcall, stat, interp, wcscall, imcall, plugin, pc, args, hdr, data, dq,
          badpix_mask, smoothed_data, zoomed, outhdr, outfile, err>>

----------------------------------------------------------------------------
(* Bounds of the model.                                                    *)

\* Largest flag value of a definition file, and largest DQ value of a pixel.
MaxFlag == 3
\* Most rows of a definition file.
MaxRows == 3
\* Most elements of a 1-D DQ array handed to interpret_array.
MaxLen == 2
\* Most elements of a sample handed to calc_stat (Outlier10 apart).
MaxSample == 3
\* Largest niter handed to calc_stat (NiterScenario and NiterDefault apart).
MaxIter == 2
\* Most cells of the badpix_mask, and of the basis_mask, of interpolate_badpix.
MaxBad == 2
MaxBasis == 3
\* Most rows and columns of the image handed to scale_image_with_dq.
MaxH == 3
MaxW == 3
\* Largest ignore_edge_pixels.
MaxEdge == 2

----------------------------------------------------------------------------
(* Integer helpers.                                                        *)

RECURSIVE BitAnd(_, _)
\* Python's and numpy's & on non-negative integers.
BitAnd(a, b) ==
    IF a = 0 \/ b = 0 THEN 0
    ELSE (a % 2) * (b % 2) + 2 * BitAnd(a \div 2, b \div 2)

\* The sequences over S with lo..hi elements.
SeqsOf(S, lo, hi) == UNION {[1..n -> S] : n \in lo..hi}

\* The 0-based 1-D arrays over S with at most n elements.
Arrays1D(S, n) == UNION {[0..(k - 1) -> S] : k \in 0..n}

RECURSIVE GCD(_, _)
GCD(a, b) == IF b = 0 THEN a ELSE GCD(b, a % b)

Abs(a) == IF a < 0 THEN -a ELSE a

\* A float: a finite value n/d in lowest terms with d > 0, NaN or infinity.
\* "sqrt" is the square root of n/d, "biweight" the value astropy's
\* biweight_location gives for the retained sample.
Rat(n, d) ==
    LET g == GCD(Abs(n), Abs(d))
        sgn == IF d < 0 THEN -1 ELSE 1
    IN  [k |-> "fin", n |-> sgn * (n \div g), d |-> sgn * (d \div g)]

Float(n) == [k |-> "fin", n |-> n, d |-> 1]
NaN == [k |-> "nan", n |-> 0, d |-> 1]
Inf == [k |-> "inf", n |-> 1, d |-> 1]

\* np.isfinite
isfinite(v) == v.k \notin {"nan", "inf"}

RECURSIVE SumSeq(_)
SumSeq(s) == IF s = <<>> THEN 0 ELSE Head(s) + SumSeq(Tail(s))

RECURSIVE Insert(_, _)
Insert(x, s) ==
    IF s = <<>> THEN <<x>>
    ELSE IF x <= Head(s) THEN <<x>> \o s ELSE <<Head(s)>> \o Insert(x, Tail(s))

RECURSIVE SortInts(_)
\* The elements of a sequence of integers in ascending order.
SortInts(s) == IF s = <<>> THEN <<>> ELSE Insert(Head(s), SortInts(Tail(s)))

----------------------------------------------------------------------------
(* DQParser.                                                               *)

\* DQParser._okflag
okflag == 0

NoCall == [op |-> "none", data |-> <<>>, dqval |-> 0,
           dqs_by_flag |-> <<>>, dqs |-> <<>>]

\* A definition file: its DQFLAG column in file order, and whether it has
\* comment lines (the metadata).  The descriptions of row i are named after i.
DefinitionFiles ==
    [flags : SeqsOf(0..MaxFlag, 1, MaxRows), comments : BOOLEAN]

\* ascii.read(definition_file, names=(DQFLAG, short, long), ...)
ascii_read(file) ==
    [i \in 1..Len(file.flags) |->
        [DQFLAG |-> file.flags[i],
         short  |-> "short" \o ToString(i),
         long   |-> "long" \o ToString(i)]]

\* Whether a value is in the DQFLAG column of a table.
InColumn(t, v) == \E i \in 1..Len(t) : t[i].DQFLAG = v

\* "Ensure table has OK flag to detect good pixel"
add_ok_row(t) ==
    IF ~InColumn(t, okflag)
    THEN Append(t, [DQFLAG |-> okflag, short |-> "OK", long |-> "Good pixel"])
    ELSE t

\* Whether the rows of a table are in ascending order of DQFLAG.
IsAscending(s) == \A i \in 1..(Len(s) - 1) : s[i].DQFLAG <= s[i + 1].DQFLAG

Permutations1(n) == {p \in [1..n -> 1..n] : \A i, j \in 1..n : p[i] = p[j] => i = j}

\* Table.sort(DQFLAG): the rows in ascending order of DQFLAG.  The sort is an
\* argsort that is not promised to be stable: rows with equal DQFLAG may come
\* out in any order.
table_sort(t) ==
    {s \in {[i \in 1..Len(t) |-> t[p[i]]] : p \in Permutations1(Len(t))} :
        IsAscending(s)}

\* DQParser._valid_flags: the DQFLAG column of the sorted table.
valid_flags(t) == [i \in 1..Len(t) |-> t[i].DQFLAG]

\* DQParser.__init__(definition_file).  Reading the metadata from
\* tab.meta['comments'] fails (KeyError) for a file without comment lines.
DQParserInit ==
    /\ parser = "none"
    /\ \E file \in DefinitionFiles :
        /\ deffile' = file
        /\ IF ~file.comments
           THEN /\ parser' = "failed"
                /\ tab' = <<>>
           ELSE /\ parser' = "ready"
                /\ tab' \in table_sort(add_ok_row(ascii_read(file)))
    /\ UNCHANGED <<plugin, dqcall, stat, interp, wcscall, imcall, scalevars>>

\* The mask (data & vf) != 0 of an array as the set of indices np.where gives.
one_flag(arr, vf) == {i \in DOMAIN arr : BitAnd(arr[i], vf) # 0}

\* "Skip good flag": self._valid_flags[1:]
skip_good_flag(flags) == SubSeq(flags, 2, Len(flags))

\* DQParser.interpret_array(data): a dict keyed by the flags of
\* _valid_flags[1:]; a flag met twice overwrites its own entry.
interpret_array(t, arr) ==
    LET flags == skip_good_flag(valid_flags(t))
    IN  [vf \in {flags[i] : i \in 1..Len(flags)} |-> one_flag(arr, vf)]

\* self.tab[idx]: the rows of a table at the indices idx, in table order.
SelectRows(t, idx) ==
    LET F[i \in 0..Len(t)] ==
            IF i = 0 THEN <<>>
            ELSE IF i \in idx THEN Append(F[i - 1], t[i]) ELSE F[i - 1]
    IN  F[Len(t)]

\* interpret_dqval with the flags compared for equality with the value
\* instead of bit by bit.
interpret_dqval_equal(t, dqval) ==
    IF dqval = okflag
    THEN SelectRows(t, {i \in 1..Len(t) : t[i].DQFLAG = okflag})
    ELSE SelectRows(t, {i \in 1..Len(t) : dqval = t[i].DQFLAG})

\* DQParser.interpret_dqval(dqval)
interpret_dqval(t, dqval) ==
    IF dqval = okflag
    THEN SelectRows(t, {i \in 1..Len(t) : t[i].DQFLAG = okflag})
    ELSE SelectRows(t, {i \in 1..Len(t) : BitAnd(dqval, t[i].DQFLAG) # 0})

NoStat == [op |-> "none"]
NoInterp == [op |-> "none"]
NoArgs == [op |-> "none"]
NoArray == <<>>
NoHeader == [num |-> <<>>, str |-> <<>>]
NoWcsCall == [op |-> "none"]
NoImageCall == [op |-> "none"]
NoPlugin == [op |-> "none"]
NoFile == [exists |-> FALSE, data |-> NoArray, header |-> NoHeader, writes |-> 0]

\* scale_image_with_dq has not been called.
ScaleIdle ==
    /\ pc = "idle"
    /\ hdr = NoHeader
    /\ data = NoArray
    /\ dq = NoArray
    /\ badpix_mask = {}
    /\ smoothed_data = NoArray
    /\ zoomed = NoArray
    /\ outhdr = NoHeader
    /\ outfile = NoFile
    /\ err = "none"

InterpretArray ==
    /\ parser = "ready"
    /\ \E arr \in Arrays1D(0..MaxFlag, MaxLen) :
        dqcall' = [NoCall EXCEPT !.op = "interpret_array", !.data = arr,
                                 !.dqs_by_flag = interpret_array(tab, arr)]
    /\ UNCHANGED <<plugin, tab, parser, deffile, stat, interp, wcscall, imcall, scalevars>>

InterpretDqval ==
    /\ parser = "ready"
    /\ \E dqval \in 0..MaxFlag :
        dqcall' = [NoCall EXCEPT !.op = "interpret_dqval", !.dqval = dqval,
                                 !.dqs = interpret_dqval(tab, dqval)]
    /\ UNCHANGED <<plugin, tab, parser, deffile, stat, interp, wcscall, imcall, scalevars>>

InitDQ ==
    /\ tab = <<>>
    /\ parser = "none"
    /\ deffile = [flags |-> <<>>, comments |-> FALSE]
    /\ dqcall = NoCall
    /\ stat = NoStat
    /\ plugin = NoPlugin
    /\ interp = NoInterp
    /\ wcscall = NoWcsCall
    /\ imcall = NoImageCall
    /\ ScaleIdle
    /\ args = NoArgs

NextDQ == DQParserInit \/ InterpretArray \/ InterpretDqval

\* A DQParser is constructed, then used for any number of calls.
SpecDQ == InitDQ /\ [][NextDQ]_vars

----------------------------------------------------------------------------
(* calc_stat.                                                              *)

\* The defaults of calc_stat: sigma=1.8, niter=10.
SigmaDefault == <<9, 5>>
NiterDefault == 10
\* niter of the documented scenario.
NiterScenario == 5

\* The scenario's sample: nine 1s and one 100.
Outlier10 == [i \in 1..10 |-> IF i < 10 THEN 1 ELSE 100]

Samples == SeqsOf({0, 1, 100}, 0, MaxSample) \cup {Outlier10}
\* sigma as a fraction <<numerator, denominator>>.
Sigmas == {<<1, 2>>, <<1, 1>>, SigmaDefault, <<2, 1>>}
Niters == (0..MaxIter) \cup {NiterScenario, NiterDefault}
Algorithms == {"mean", "median", "mode", "stddev", "Mean", "STDDEV", "foo"}

\* str.lower() on the names above.
lower(a) ==
    CASE a = "Mean" -> "mean"
      [] a = "STDDEV" -> "stddev"
      [] OTHER -> a

\* Twice np.median: an integer for integer data.
median2(arr) ==
    LET srt == SortInts(arr)
        n == Len(arr)
    IN  IF n % 2 = 1 THEN 2 * srt[(n + 1) \div 2]
        ELSE srt[n \div 2] + srt[n \div 2 + 1]

\* n * n times the variance (ddof = 0) of a sample of n integers.
variance_n2(arr) ==
    LET sq == [i \in 1..Len(arr) |-> arr[i] * arr[i]]
    IN  Len(arr) * SumSeq(sq) - SumSeq(arr) * SumSeq(arr)

\* The bound of one clipping pass taken with the variance where the standard
\* deviation belongs: |x - median| <= sigma * variance.
within_bounds_variance(arr, sigma, x) ==
    LET n == Len(arr)
    IN  Abs(2 * x - median2(arr)) * n * n * sigma[2]
            <= 2 * sigma[1] * variance_n2(arr)

\* The bound of one clipping pass with the element on the bound discarded:
\* |x - median| < sigma * std.
within_bounds_strict(arr, sigma, x) ==
    LET n == Len(arr)
        dev == 2 * x - median2(arr)
    IN  dev * dev * n * n * sigma[2] * sigma[2]
            < 4 * sigma[1] * sigma[1] * variance_n2(arr)

\* One pass of sigma_clip keeps x when median - sigma * std <= x and
\* x <= median + sigma * std, that is (x - median)^2 <= sigma^2 * variance.
within_bounds(arr, sigma, x) ==
    LET n == Len(arr)
        dev == 2 * x - median2(arr)
    IN  dev * dev * n * n * sigma[2] * sigma[2]
            <= 4 * sigma[1] * sigma[1] * variance_n2(arr)

clip_pass(arr, sigma) ==
    LET Keep(x) == within_bounds(arr, sigma, x) IN SelectSeq(arr, Keep)

RECURSIVE clip_loop(_, _, _)
\* Passes until one discards nothing, maxiters passes at most.
clip_loop(arr, sigma, maxiters) ==
    IF maxiters = 0 \/ arr = <<>> THEN arr
    ELSE LET nxt == clip_pass(arr, sigma)
         IN  IF Len(nxt) = Len(arr) THEN arr
             ELSE clip_loop(nxt, sigma, maxiters - 1)

\* sigma_clip(arr, sigma=sigma, iters|maxiters=niter), then the elements
\* that are not masked.  astropy before 3.1 runs iters passes; from 3.1 on
\* SigmaClip takes "maxiters or np.inf", so that maxiters=0 clips until a
\* pass discards nothing (no more than Len(arr) passes discard anything).
sigma_clip(arr, sigma, niter, lt_3_1) ==
    IF ~lt_3_1 /\ niter = 0 THEN clip_loop(arr, sigma, Len(arr))
    ELSE clip_loop(arr, sigma, niter)

\* The statistic of the retained sample.
statistic(arr, algorithm) ==
    CASE algorithm = "mean" -> Rat(SumSeq(arr), Len(arr))
      [] algorithm = "median" -> Rat(median2(arr), 2)
      [] algorithm = "mode" -> [k |-> "biweight", n |-> 0, d |-> 1]
      [] algorithm = "stddev" ->
            [Rat(variance_n2(arr), Len(arr) * Len(arr)) EXCEPT !.k = "sqrt"]

StatResult(status, retained, val) ==
    [status |-> status, retained |-> retained, val |-> val]

\* calc_stat with the algorithm name validated before the sample is looked at.
calc_stat_validate_first(arr, sigma, niter, algorithm, lt_3_1) ==
    IF lower(algorithm) \notin {"mean", "median", "mode", "stddev"}
    THEN StatResult("ValueError", <<>>, NaN)
    ELSE IF Len(arr) < 1 THEN StatResult("ok", <<>>, Float(0))
    ELSE LET kept == sigma_clip(arr, sigma, niter, lt_3_1)
         IN  IF Len(kept) < 1 THEN StatResult("ok", kept, Float(0))
             ELSE StatResult("ok", kept, statistic(kept, lower(algorithm)))

\* calc_stat with the algorithm name compared as given, without lower().
calc_stat_case_sensitive(arr, sigma, niter, algorithm, lt_3_1) ==
    IF Len(arr) < 1 THEN StatResult("ok", <<>>, Float(0))
    ELSE LET kept == sigma_clip(arr, sigma, niter, lt_3_1)
         IN  IF Len(kept) < 1 THEN StatResult("ok", kept, Float(0))
             ELSE IF algorithm \in {"mean", "median", "mode", "stddev"}
                  THEN StatResult("ok", kept, statistic(kept, algorithm))
                  ELSE StatResult("ValueError", kept, NaN)

\* calc_stat(data, sigma, niter, algorithm), data being np.ravel'ed.
calc_stat(arr, sigma, niter, algorithm, lt_3_1) ==
    IF Len(arr) < 1 THEN StatResult("ok", <<>>, Float(0))
    ELSE LET kept == sigma_clip(arr, sigma, niter, lt_3_1)
         IN  IF Len(kept) < 1 THEN StatResult("ok", kept, Float(0))
             ELSE IF lower(algorithm) \in {"mean", "median", "mode", "stddev"}
                  THEN StatResult("ok", kept, statistic(kept, lower(algorithm)))
                  ELSE StatResult("ValueError", kept, NaN)

\* A call of calc_stat; ASTROPY_LT_3_1 is the installed astropy's.  The
\* function keeps no state: one call is followed from its inputs to its result.
CalcStat ==
    /\ stat.op = "none"
    /\ \E arr \in Samples, sigma \in Sigmas, niter \in Niters,
          algorithm \in Algorithms, lt_3_1 \in BOOLEAN :
        stat' = [op |-> "calc_stat", data |-> arr, sigma |-> sigma,
                 niter |-> niter, algorithm |-> algorithm,
                 ASTROPY_LT_3_1 |-> lt_3_1,
                 result |-> calc_stat(arr, sigma, niter, algorithm, lt_3_1)]
    /\ UNCHANGED <<plugin, dqvars, interp, wcscall, imcall, scalevars>>

InitStat == InitDQ

SpecStat == InitStat /\ [][CalcStat]_vars

----------------------------------------------------------------------------
(* interpolate_badpix.                                                     *)

\* The shape of the image of the tests: 3 rows, 3 columns.
TestRows == 3
TestCols == 3

\* The cells <<y, x>> of an array of the given shape.
Cells(shape) == (0..(shape[1] - 1)) \X (0..(shape[2] - 1))

InterpShapes == (1..TestRows) \X (1..TestCols)

\* An image with a different value in every cell.
Ramp(shape) == [c \in Cells(shape) |-> Float(c[1] * shape[2] + c[2] + 1)]

\* The subsets of S with at most n elements.
SubsetsUpTo(S, n) == {m \in SUBSET S : Cardinality(m) <= n}

\* A mask: the cells that are True, and the number of dimensions of the
\* array.  The tests also hand the 1-D empty list [] as a basis_mask.
Mask2D(cells) == [ndim |-> 2, cells |-> cells]
EmptyList == [ndim |-> 1, cells |-> {}]
BasisMasks(shape) ==
    {Mask2D(m) : m \in SubsetsUpTo(Cells(shape), MaxBasis)} \cup {EmptyList}
BadpixMasks(shape) == {Mask2D(m) : m \in SubsetsUpTo(Cells(shape), MaxBad)}

Methods == {"nearest", "linear", "cubic", "foo"}

\* The squared distance of two cells, as griddata sees them: (x, y) points.
Dist2(p, q) == (p[1] - q[1]) * (p[1] - q[1]) + (p[2] - q[2]) * (p[2] - q[2])

\* Twice the signed area of the triangle a, b, p.
Cross(a, b, p) ==
    (b[2] - a[2]) * (p[1] - a[1]) - (b[1] - a[1]) * (p[2] - a[2])

\* Whether the points have no triangle: Qhull cannot triangulate them.
Degenerate(points) == \A a, b, c \in points : Cross(a, b, c) = 0

\* Whether p is in the convex hull of the points (in a triangle of them).
InHull(points, p) ==
    \E a, b, c \in points :
        /\ Cross(a, b, c) # 0
        /\ \/ Cross(a, b, p) >= 0 /\ Cross(b, c, p) >= 0 /\ Cross(c, a, p) >= 0
           \/ Cross(a, b, p) <= 0 /\ Cross(b, c, p) <= 0 /\ Cross(c, a, p) <= 0

\* The finite value linear or cubic interpolation gives at a cell.
Interpolant(p) == [k |-> "interp", n |-> p[1], d |-> p[2]]

GridOk(vals) == [status |-> "ok", vals |-> vals]
GridError(status) == [status |-> status, vals |-> <<>>]

\* NearestNDInterpolator: the value of a nearest point, whichever of the
\* nearest ones the k-d tree finds.  Without points the tree finds none:
\* scipy before 1.12 then indexes the empty values (IndexError), later
\* versions give NaN.  Without cells to fill nothing is looked up.
griddata_nearest(points, z, xi) ==
    IF xi = {} THEN {GridOk(<<>>)}
    ELSE IF points = {} THEN {GridError("IndexError"), GridOk([p \in xi |-> NaN])}
    ELSE LET Nearest(p) ==
                 {q \in points : \A r \in points : Dist2(p, q) <= Dist2(p, r)}
         IN  {GridOk([p \in xi |-> z[f[p]]]) :
                 f \in {g \in [xi -> points] : \A p \in xi : g[p] \in Nearest(p)}}

\* LinearNDInterpolator and CloughTocher2DInterpolator: a Delaunay
\* triangulation of the points (an error when there are none, or when they
\* have no triangle), the value of a point at that point, NaN at the cells
\* outside the convex hull.
griddata_triangulated(points, z, xi) ==
    IF points = {} THEN {GridError("ValueError")}
    ELSE IF Degenerate(points) THEN {GridError("QhullError")}
    ELSE {GridOk([p \in xi |->
                    IF p \in points THEN z[p]
                    ELSE IF InHull(points, p) THEN Interpolant(p) ELSE NaN])}

\* scipy.interpolate.griddata((x, y), z, (xnew, ynew), method=method)
griddata(points, z, xi, method) ==
    CASE method = "nearest" -> griddata_nearest(points, z, xi)
      [] method \in {"linear", "cubic"} -> griddata_triangulated(points, z, xi)
      [] OTHER -> {GridError("ValueError")}

\* An assignment that also sets the cells outside the mask (to NaN).
assign_everywhere(image, mask, vals) ==
    [c \in DOMAIN image |-> IF c \in mask THEN vals[c] ELSE NaN]

\* image[mask] = vals
assign_masked(image, mask, vals) ==
    [c \in DOMAIN image |-> IF c \in mask THEN vals[c] ELSE image[c]]

InterpResult(status, image) == [status |-> status, image |-> image]

\* interpolate_badpix(image, badpix_mask, basis_mask, method): the outcomes,
\* each the status and the image after the call.  "y, x = np.where(basis_mask)"
\* fails for a 1-D mask; an error of griddata leaves the assignment undone.
interpolate_badpix(image, bad, basis, method) ==
    IF basis.ndim # 2 THEN {InterpResult("ValueError", image)}
    ELSE LET z == [c \in basis.cells |-> image[c]]
         IN  {IF g.status = "ok"
              THEN InterpResult("ok", assign_masked(image, bad.cells, g.vals))
              ELSE InterpResult(g.status, image) :
                 g \in griddata(basis.cells, z, bad.cells, method)}

\* A call of interpolate_badpix, followed from its inputs to its outcome.
InterpolateBadpix ==
    /\ interp.op = "none"
    /\ \E shape \in InterpShapes, method \in Methods :
        \E bad \in BadpixMasks(shape), basis \in BasisMasks(shape) :
            \E out \in interpolate_badpix(Ramp(shape), bad, basis, method) :
                interp' = [op |-> "interpolate_badpix", shape |-> shape,
                           before |-> Ramp(shape), badpix_mask |-> bad,
                           basis_mask |-> basis, method |-> method,
                           status |-> out.status, image |-> out.image]
    /\ UNCHANGED <<plugin, dqvars, stat, wcscall, imcall, scalevars>>

InitInterp == InitDQ

SpecInterp == InitInterp /\ [][InterpolateBadpix]_vars

----------------------------------------------------------------------------
(* FITS headers, astropy's WCS and scale_wcs.                              *)
(*                                                                         *)
(* A header is a pair of maps from keywords to values: num holds the       *)
(* cards with a number, str the cards with a string or a logical.          *)
(* Numbers are exact fractions; a number that 14 significant digits do     *)
(* not write exactly is marked "approx" once to_header has written it.     *)

\* Largest numerator and denominator of a zoom_factor.
MaxZoom == 3

\* The zoom factors numerator / denominator, in lowest terms.
ZoomFactors == {z \in (1..MaxZoom) \X (1..MaxZoom) : GCD(z[1], z[2]) = 1}

\* The outcome of arithmetic: exact when both operands are.
Tag(a, b) == IF a.k = "fin" /\ b.k = "fin" THEN "fin" ELSE "approx"
RatMul(a, b) == [Rat(a.n * b.n, a.d * b.d) EXCEPT !.k = Tag(a, b)]
RatAdd(a, b) == [Rat(a.n * b.d + b.n * a.d, a.d * b.d) EXCEPT !.k = Tag(a, b)]
RatSub(a, b) == [Rat(a.n * b.d - b.n * a.d, a.d * b.d) EXCEPT !.k = Tag(a, b)]
RatDiv(a, b) == [Rat(a.n * b.d, a.d * b.n) EXCEPT !.k = Tag(a, b)]

RECURSIVE Strip(_, _)
\* n with every factor p taken out.
Strip(n, p) == IF n % p = 0 THEN Strip(n \div p, p) ELSE n

\* to_header writes a number with 14 significant digits: a short decimal
\* fraction comes back as it was, any other number comes back rounded.
fmt14(v) ==
    IF v.k = "fin" /\ Strip(Strip(v.d, 2), 5) = 1 THEN v
    ELSE [v EXCEPT !.k = "approx"]

\* The keywords of the matrices.
MatKey(prefix, i, j) == prefix \o ToString(i) \o "_" \o ToString(j)
AxisKey(prefix, i) == prefix \o ToString(i)
Axes == {1, 2}
PCKeys == {MatKey("PC", i, j) : i \in Axes, j \in Axes}
CDKeys == {MatKey("CD", i, j) : i \in Axes, j \in Axes}

\* Header: key in hdr, hdr[key] with a default, hdr[key] = value, del hdr[key].
HasKey(h, key) == key \in DOMAIN h.num \/ key \in DOMAIN h.str
NumOr(h, key, default) == IF key \in DOMAIN h.num THEN h.num[key] ELSE default
StrOr(h, key, default) == IF key \in DOMAIN h.str THEN h.str[key] ELSE default
Without(f, keys) == [k \in DOMAIN f \ keys |-> f[k]]
Updated(f, g) == [k \in DOMAIN f \cup DOMAIN g |-> IF k \in DOMAIN g THEN g[k] ELSE f[k]]

\* hdr.extend(cards, update=True): the cards replace the values of the
\* keywords hdr has and are added for the keywords it lacks.
header_extend(h, cards) ==
    [num |-> Updated(h.num, cards.num), str |-> Updated(h.str, cards.str)]

Identity(i, j) == IF i = j THEN Float(1) ELSE Float(0)

\* The factor that takes a value in a unit to degrees.
UnitScale(unit) == IF unit = "arcsec" THEN Rat(1, 3600) ELSE Float(1)

\* A DATE-OBS in the format FITS had before 2000, DD/MM/YY, and the same
\* day in the ISO format yyyy-mm-dd.
OldDate == "31/12/99"
IsoDate == "1999-12-31"

\* wcslib's datfix, which WCS(header) runs (fix=True): a DATE-OBS in the old
\* format is recast to the ISO format; any other value is kept.
datfix(dateobs) == IF dateobs = OldDate THEN IsoDate ELSE dateobs

\* wcs.WCS(input_hdr): wcslib reads the keywords (CRPIX 0, CDELT 1, the unit
\* PC matrix and CRVAL 0 where the header has none) and sets itself up:
\* celestial axes are taken to degrees, and a header with a CD matrix and no
\* PC matrix gets PC = CD and CDELT = 1.  altlin says which of the matrices
\* the header gave.
WCS(h) ==
    LET altlin == {m \in {"PC", "CD", "CROTA"} :
                      \/ m = "PC" /\ PCKeys \cap DOMAIN h.num # {}
                      \/ m = "CD" /\ CDKeys \cap DOMAIN h.num # {}
                      \/ m = "CROTA" /\ "CROTA2" \in DOMAIN h.num}
        celestial == "CTYPE1" \in DOMAIN h.str /\ "CTYPE2" \in DOMAIN h.str
        scale(i) == IF celestial THEN UnitScale(StrOr(h, AxisKey("CUNIT", i), ""))
                    ELSE Float(1)
        cd == [i \in Axes |-> [j \in Axes |->
                  RatMul(NumOr(h, MatKey("CD", i, j), Float(0)), scale(i))]]
        cd_only == "CD" \in altlin /\ "PC" \notin altlin
    IN  [altlin |-> altlin,
         celestial |-> celestial,
         crpix |-> [i \in Axes |-> NumOr(h, AxisKey("CRPIX", i), Float(0))],
         cdelt |-> [i \in Axes |->
                      IF cd_only THEN Float(1)
                      ELSE RatMul(NumOr(h, AxisKey("CDELT", i), Float(1)), scale(i))],
         pc |-> IF cd_only THEN cd
                ELSE [i \in Axes |-> [j \in Axes |->
                         NumOr(h, MatKey("PC", i, j), Identity(i, j))]],
         cd |-> cd,
         crval |-> [i \in Axes |->
                      RatMul(NumOr(h, AxisKey("CRVAL", i), Float(0)), scale(i))],
         ctype |-> [i \in Axes |-> StrOr(h, AxisKey("CTYPE", i), "")],
         cunit |-> [i \in Axes |->
                      IF celestial THEN "deg" ELSE StrOr(h, AxisKey("CUNIT", i), "")],
         radesys |-> StrOr(h, "RADESYS", "ICRS"),
         dateobs |-> datfix(StrOr(h, "DATE-OBS", ""))]

\* Wcsprm.has_pc() and has_cd(): a header with no matrix at all has the
\* (unit) PC matrix.
has_pc(w) == w.altlin = {} \/ "PC" \in w.altlin
has_cd(w) == "CD" \in w.altlin

\* Wcsprm.set() after cd was assigned: PC = CD and CDELT = 1 again.
wcs_set(w) ==
    IF "CD" \in w.altlin /\ "PC" \notin w.altlin
    THEN [w EXCEPT !.pc = w.cd, !.cdelt = [i \in Axes |-> Float(1)]]
    ELSE w

WcsOk(w) == [status |-> "ok", wcs |-> w]
WcsError(status, w) == [status |-> status, wcs |-> w]

\* A slice that divides CRPIX by the step, without the shift to pixel centres.
wcs_slice_plain(w, step) ==
    IF step = 0 THEN WcsError("ZeroDivisionError", w)
    ELSE WcsOk([w EXCEPT
            !.crpix = [i \in Axes |-> RatDiv(w.crpix[i], Float(step))],
            !.cdelt = [i \in Axes |-> RatMul(w.cdelt[i], Float(step))]])

\* WCS.slice((np.s_[::step], np.s_[::step])): a copy of the WCS for every
\* step-th pixel of both axes.  "1. / iview.step" divides by zero for the
\* step 0; the step 1 changes nothing.
wcs_slice(w, step) ==
    IF step = 0 THEN WcsError("ZeroDivisionError", w)
    ELSE IF step = 1 THEN WcsOk(w)
    ELSE WcsOk([w EXCEPT
            !.crpix = [i \in Axes |->
                RatAdd(RatAdd(RatDiv(RatSub(w.crpix[i], Float(1)), Float(step)),
                              Rat(1, 2)),
                       Rat(1, 2 * step))],
            !.cdelt = [i \in Axes |-> RatMul(w.cdelt[i], Float(step))]])

\* WCS.to_header(): the cards of the linear WCS, with PCi_j + CDELTi for
\* the matrix whatever the header it was read from had; an element of PC is
\* written only if it differs from the unit matrix.  DATE-OBS is written
\* when the WCS has one; the other time cards (MJD-OBS, MJDREF) are left out.
to_header(w) ==
    LET written == {<<i, j>> \in Axes \X Axes :
                       \/ w.pc[i][j].n # Identity(i, j).n
                       \/ w.pc[i][j].d # 1}
        axisnum == ("CRPIX1" :> fmt14(w.crpix[1])) @@ ("CRPIX2" :> fmt14(w.crpix[2]))
                   @@ ("CDELT1" :> fmt14(w.cdelt[1])) @@ ("CDELT2" :> fmt14(w.cdelt[2]))
                   @@ ("CRVAL1" :> fmt14(w.crval[1])) @@ ("CRVAL2" :> fmt14(w.crval[2]))
        matnum == [k \in {MatKey("PC", c[1], c[2]) : c \in written} |->
                      LET c == CHOOSE x \in written : k = MatKey("PC", x[1], x[2])
                      IN  fmt14(w.pc[c[1]][c[2]])]
        polenum == IF w.celestial
                   THEN ("LONPOLE" :> Float(180)) @@ ("LATPOLE" :> fmt14(w.crval[2]))
                   ELSE <<>>
        axes == "WCSAXES" :> Float(2)
        axisstr == ("CTYPE1" :> w.ctype[1]) @@ ("CTYPE2" :> w.ctype[2])
                   @@ ("CUNIT1" :> w.cunit[1]) @@ ("CUNIT2" :> w.cunit[2])
        set == {k \in DOMAIN axisstr : axisstr[k] # ""}
        sys == IF w.celestial THEN "RADESYS" :> w.radesys ELSE <<>>
        date == IF w.dateobs # "" THEN "DATE-OBS" :> w.dateobs ELSE <<>>
    IN  [num |-> Updated(Updated(Updated(axes, axisnum), matnum), polenum),
         str |-> Updated(Updated([k \in set |-> axisstr[k]], sys), date)]

\* wshdr.rename_keyword(key, newkey) for key = PCi_j in wshdr, newkey = CDi_j.
rename_pc_to_cd(wshdr) ==
    LET pcs == PCKeys \cap DOMAIN wshdr.num
        cds == {MatKey("CD", i, j) : i \in Axes, j \in Axes}
        Of(k) == CHOOSE c \in Axes \X Axes : k = MatKey("CD", c[1], c[2])
        renamed == {k \in cds : MatKey("PC", Of(k)[1], Of(k)[2]) \in pcs}
    IN  [wshdr EXCEPT !.num =
            [k \in (DOMAIN wshdr.num \ pcs) \cup renamed |->
                IF k \in renamed
                THEN wshdr.num[MatKey("PC", Of(k)[1], Of(k)[2])]
                ELSE wshdr.num[k]]]

\* new_wcs.wcs.cd *= new_wcs.wcs.cdelt: numpy multiplies the element [i][j]
\* of the matrix by the element [j] of the vector.
cd_times_cdelt(w) ==
    [w EXCEPT !.cd = [i \in Axes |-> [j \in Axes |-> RatMul(w.cd[i][j], w.cdelt[j])]]]

\* Cards in which the PC branch folds CDELT into the matrix as well.
rescaled_cards_folded(old_wcs, new_wcs) ==
    IF has_pc(old_wcs) \/ has_cd(old_wcs)
    THEN [status |-> "ok",
          wshdr |-> to_header([new_wcs EXCEPT !.pc =
                        [i \in Axes |-> [j \in Axes |->
                            RatMul(new_wcs.pc[i][j], new_wcs.cdelt[j])]]])]
    ELSE [status |-> "ValueError", wshdr |-> NoHeader]

\* Lines 318-341: the cards of the rescaled WCS, or the error.
rescaled_cards(old_wcs, new_wcs) ==
    IF has_pc(old_wcs)
    THEN [status |-> "ok", wshdr |-> to_header(new_wcs)]
    ELSE IF has_cd(old_wcs)
    THEN [status |-> "ok",
          wshdr |-> rename_pc_to_cd(to_header(wcs_set(cd_times_cdelt(new_wcs))))]
    ELSE [status |-> "ValueError", wshdr |-> NoHeader]

\* A scale_wcs that works on the header it was handed.
header_alias(objs, ref) == [objs |-> objs, ref |-> ref]

\* input_hdr.copy(): a new header object with the cards of the old one.
header_copy(objs, ref) ==
    [objs |-> [o \in DOMAIN objs \cup {"hdr"} |->
                 IF o = "hdr" THEN objs[ref] ELSE objs[o]],
     ref |-> "hdr"]

\* Lines 345-350: XTENSION goes, SIMPLE = True comes.
make_primary(h) ==
    [h EXCEPT !.str = Updated(Without(h.str, {"XTENSION"}),
                              [k \in {"SIMPLE"} |-> "T"])]

\* scale_wcs(input_hdr, zoom_factor): the status, the header returned, and
\* the header the caller handed in as it is after the call.
scale_wcs(input_hdr, zoom_factor) ==
    LET slice_factor == zoom_factor[2] \div zoom_factor[1]
        old_wcs == WCS(input_hdr)
        sliced == wcs_slice(old_wcs, slice_factor)
        cards == rescaled_cards(old_wcs, sliced.wcs)
        objs == [o \in {"input_hdr"} |-> input_hdr]
        copied == header_copy(objs, "input_hdr")
        extended == [copied.objs EXCEPT ![copied.ref] =
                        header_extend(make_primary(copied.objs[copied.ref]),
                                      cards.wshdr)]
    IN  IF sliced.status # "ok"
        THEN [status |-> sliced.status, hdr |-> NoHeader, input_hdr |-> input_hdr]
        ELSE IF cards.status # "ok"
        THEN [status |-> cards.status, hdr |-> NoHeader, input_hdr |-> input_hdr]
        ELSE [status |-> "ok", hdr |-> extended[copied.ref],
              input_hdr |-> extended["input_hdr"]]

\* The matrices of the headers: 1/k on the diagonal, b and -b off it.
Matrix(a, b) ==
    [i \in Axes |-> [j \in Axes |->
        IF i = j THEN a ELSE IF i < j THEN b ELSE RatSub(Float(0), b)]]
Matrices == {Matrix(Rat(1, k), b) : k \in 1..MaxZoom, b \in {Float(0), Rat(1, 4)}}

\* The cards of a matrix under the keywords PCi_j or CDi_j.
MatrixCards(prefix, m) ==
    [k \in {MatKey(prefix, i, j) : i \in Axes, j \in Axes} |->
        LET c == CHOOSE x \in Axes \X Axes : k = MatKey(prefix, x[1], x[2])
        IN  m[c[1]][c[2]]]

\* A header of an image with a celestial WCS.  form says how the header
\* gives the linear transformation: "PC" (PCi_j and CDELTi), "CD" (CDi_j) or
\* "CROTA" (CROTA2 and CDELTi); unit and radesys are "" for a header without
\* CUNITi or RADESYS; ext is the first keyword, "XTENSION" or "SIMPLE".
WcsHeader(form, m, cdelt, crpix, unit, radesys, ext) ==
    LET cdelts == ("CDELT1" :> cdelt[1]) @@ ("CDELT2" :> cdelt[2])
        linear == IF form = "PC" THEN Updated(MatrixCards("PC", m), cdelts)
                  ELSE IF form = "CD" THEN MatrixCards("CD", m)
                  ELSE Updated("CROTA2" :> Float(30), cdelts)
        units == IF unit = "" THEN <<>> ELSE ("CUNIT1" :> unit) @@ ("CUNIT2" :> unit)
        sys == IF radesys = "" THEN <<>> ELSE "RADESYS" :> radesys
    IN  [num |-> Updated(("CRPIX1" :> crpix[1]) @@ ("CRPIX2" :> crpix[2])
                         @@ ("CRVAL1" :> Float(5)) @@ ("CRVAL2" :> Float(15)),
                         linear),
         str |-> Updated(Updated(("CTYPE1" :> "RA---TAN") @@ ("CTYPE2" :> "DEC--TAN")
                                 @@ (ext :> IF ext = "SIMPLE" THEN "T" ELSE "IMAGE"),
                                 units), sys)]

\* A header with no WCS keyword at all.
PlainHeader(ext) ==
    [num |-> <<>>, str |-> ext :> IF ext = "SIMPLE" THEN "T" ELSE "IMAGE"]

\* The header of the tests' SCI extension: what to_header writes for
\* crpix = [4.5, 4.5], crval = [5, 15] and
\* cd = [[1e-5, -1e-8], [1.5e-8, 1.2e-5]], namely PCi_j with CDELTi = 1.
TestMatrix ==
    [i \in Axes |-> [j \in Axes |->
        IF i = 1 THEN (IF j = 1 THEN Rat(1, 100000) ELSE Rat(-1, 100000000))
        ELSE (IF j = 1 THEN Rat(3, 200000000) ELSE Rat(3, 250000))]]
TestHeader ==
    LET w == WcsHeader("PC", TestMatrix, <<Float(1), Float(1)>>,
                       <<Rat(9, 2), Rat(9, 2)>>, "deg", "ICRS", "XTENSION")
    IN  [w EXCEPT !.num = Updated(w.num, ("WCSAXES" :> Float(2))
                                  @@ ("LONPOLE" :> Float(180))
                                  @@ ("LATPOLE" :> Float(15)))]

Forms == {"PC", "CD", "CROTA"}
Cdelts == {<<Float(1), Float(1)>>, <<Float(2), Float(3)>>}
Crpixes == {<<Rat(9, 2), Rat(9, 2)>>, <<Float(1), Float(0)>>}
Units == {"", "deg", "arcsec"}
Exts == {"XTENSION", "SIMPLE"}


\* A call of scale_wcs, followed from its inputs to its outcome.
ScaleWcsCall ==
    /\ wcscall.op = "none"
    /\ \E form \in Forms, m \in Matrices, cdelt \in Cdelts, crpix \in Crpixes :
        \E unit \in Units, radesys \in {"", "FK5"}, ext \in Exts :
            \E input_hdr \in {WcsHeader(form, m, cdelt, crpix, unit, radesys, ext),
                              PlainHeader(ext), TestHeader} :
                \E zoom_factor \in ZoomFactors :
                    LET r == scale_wcs(input_hdr, zoom_factor)
                    IN  wcscall' = [op |-> "scale_wcs", input_hdr |-> input_hdr,
                                    zoom_factor |-> zoom_factor,
                                    status |-> r.status, hdr |-> r.hdr,
                                    after |-> r.input_hdr]
    /\ UNCHANGED <<plugin, dqvars, stat, interp, imcall, scalevars>>

\* A second call of scale_wcs, on the header the first returned and with
\* the inverse of its zoom factor.
ScaleWcsBack ==
    /\ wcscall.op = "scale_wcs"
    /\ wcscall.status = "ok"
    /\ LET inverse == <<wcscall.zoom_factor[2], wcscall.zoom_factor[1]>>
           r == scale_wcs(wcscall.hdr, inverse)
       IN  wcscall' = [op |-> "round_trip", input_hdr |-> wcscall.input_hdr,
                       zoom_factor |-> wcscall.zoom_factor,
                       status |-> wcscall.status, hdr |-> wcscall.hdr,
                       after |-> wcscall.after,
                       back_status |-> r.status, back_hdr |-> r.hdr]
    /\ UNCHANGED <<plugin, dqvars, stat, interp, imcall, scalevars>>

NextWcs == ScaleWcsCall \/ ScaleWcsBack

InitWcs == InitDQ

SpecWcs == InitWcs /\ [][NextWcs]_vars

----------------------------------------------------------------------------
(* scale_image_with_dq.                                                    *)

\* The default kernel_width.
KernelDefault == 99

\* The keywords the science header inherits from the primary header.
InheritKeys == {"ROOTNAME", "TARGNAME", "INSTRUME", "DETECTOR",
                "FILTER", "PUPIL", "DATE-OBS", "TIME-OBS"}

\* The definition file of the parser handed to scale_image_with_dq, and the
\* table DQParser makes of it.
ScaleDefinition == [flags |-> <<1, 2>>, comments |-> TRUE]
ScaleTable == CHOOSE t \in table_sort(add_ok_row(ascii_read(ScaleDefinition))) : TRUE

ScaleShapes == (1..MaxH) \X (1..MaxW)

\* DQ arrays: one value everywhere but for one cell.
DQArrays(shape, values) ==
    {[c \in Cells(shape) |-> IF c = p THEN v ELSE b] :
        p \in Cells(shape), v \in values, b \in values}

\* Science arrays: the ramp 0, 1, 2, ... of the tests, and the ramp with one
\* cell that is NaN or infinite.
TestRamp(shape) == [c \in Cells(shape) |-> Float(c[1] * shape[2] + c[2])]
DataArrays(shape) ==
    {TestRamp(shape)} \cup
    {[TestRamp(shape) EXCEPT ![p] = v] : p \in Cells(shape), v \in {NaN, Inf}}

\* The primary header of the tests.
TestPrimary == [k \in {"INSTRUME"} |-> "ACS"]

\* The arguments of a call and the files it reads.  zoom_factor is a
\* fraction <<numerator, denominator>>; kernel_width is odd.
ScaleArgs(shape, sci, dqarr, bad_flag, edge, kernel_width, zoom_factor) ==
    [op |-> "scale_image_with_dq", shape |-> shape, ndim |-> 2,
     sci |-> sci, dq |-> dqarr, hdr |-> TestHeader, prihdr |-> TestPrimary,
     bad_flag |-> bad_flag, ignore_edge_pixels |-> edge,
     kernel_width |-> kernel_width, zoom_factor |-> zoom_factor,
     overwrite |-> FALSE, outfile |-> NoFile]

\* An inheritance in which the value of the primary header replaces the
\* value the header has itself.
inherit_overwrite(cards, prihdr) ==
    [k \in DOMAIN cards \cup (DOMAIN prihdr \cap InheritKeys) |->
        IF k \in DOMAIN prihdr \cap InheritKeys THEN prihdr[k] ELSE cards[k]]

\* hdr[key] = prihdr[key] for the keys hdr lacks and prihdr has.
inherit(cards, prihdr) ==
    [k \in DOMAIN cards \cup (DOMAIN prihdr \cap InheritKeys) |->
        IF k \in DOMAIN cards THEN cards[k] ELSE prihdr[k]]

\* Lines 482-502: return when the output exists and is not to be
\* overwritten; load the headers and arrays; refuse data that are not 2-D;
\* inherit keywords.
ScaleOpen ==
    /\ pc = "idle"
    /\ args # NoArgs
    /\ IF ~args.overwrite /\ args.outfile.exists
       THEN /\ pc' = "returned"
            /\ UNCHANGED <<hdr, data, dq, err>>
       ELSE IF args.ndim # 2
       THEN /\ pc' = "failed"
            /\ err' = "ValueError"
            /\ hdr' = args.hdr
            /\ data' = args.sci
            /\ dq' = args.dq
       ELSE /\ pc' = "opened"
            /\ hdr' = [args.hdr EXCEPT !.str = inherit(args.hdr.str, args.prihdr)]
            /\ data' = args.sci
            /\ dq' = args.dq
            /\ err' = "none"
    /\ UNCHANGED <<plugin, dqvars, stat, interp, wcscall, imcall, args, badpix_mask, smoothed_data,
                   zoomed, outhdr, outfile>>

\* The indices a Python slice start:stop selects of an axis of n elements.
slice_indices(start, stop, n) ==
    LET Clip(i) == IF i < 0 THEN (IF i + n < 0 THEN 0 ELSE i + n)
                   ELSE (IF i > n THEN n ELSE i)
    IN  {i \in 0..(n - 1) : Clip(start) <= i /\ i < Clip(stop)}

\* The edge mask with the border taken off the rows only.
edge_mask_rows_only(shape, ignore_edge_pixels) ==
    LET iy_max == shape[1] - ignore_edge_pixels
    IN  {c \in Cells(shape) :
            c[1] \notin slice_indices(ignore_edge_pixels, iy_max, shape[1])}

\* Lines 506-510: True everywhere but in
\* [ignore_edge_pixels:iy_max, ignore_edge_pixels:ix_max].
edge_mask(shape, ignore_edge_pixels) ==
    LET iy_max == shape[1] - ignore_edge_pixels
        ix_max == shape[2] - ignore_edge_pixels
    IN  {c \in Cells(shape) :
            ~(/\ c[1] \in slice_indices(ignore_edge_pixels, iy_max, shape[1])
              /\ c[2] \in slice_indices(ignore_edge_pixels, ix_max, shape[2]))}

\* Lines 504-514: the flagged cells that are not edge cells.  bad_flag must
\* be a key of interpret_array's dict (KeyError otherwise).
ScaleMask ==
    /\ pc = "opened"
    /\ LET dqs_by_flags == interpret_array(tab, dq)
       IN  IF args.bad_flag \notin DOMAIN dqs_by_flags
           THEN /\ pc' = "failed"
                /\ err' = "KeyError"
                /\ UNCHANGED badpix_mask
           ELSE /\ pc' = "masked"
                /\ badpix_mask' = dqs_by_flags[args.bad_flag]
                                     \ edge_mask(args.shape, args.ignore_edge_pixels)
                /\ UNCHANGED err
    /\ UNCHANGED <<plugin, dqvars, stat, interp, wcscall, imcall, args, hdr, data, dq, smoothed_data,
                   zoomed, outhdr, outfile>>

RECURSIVE SumOver(_, _)
\* The sum of the numerators of f over the cells S.
SumOver(S, f) ==
    IF S = {} THEN 0
    ELSE LET c == CHOOSE x \in S : TRUE IN f[c].n + SumOver(S \ {c}, f)

\* The cells of the image a box kernel of odd width centred on c covers.
Window(shape, c, width) ==
    LET half == (width - 1) \div 2
    IN  {q \in Cells(shape) : Abs(q[1] - c[1]) <= half /\ Abs(q[2] - c[2]) <= half}

\* convolve_fft(array, Box2DKernel(width), mask=mask): masked, NaN and
\* infinite cells carry no weight; outside the image the array is filled
\* with zeros of full weight; each cell is the weighted sum over the kernel
\* divided by the weight it covers.  The cells whose kernel covers no weight
\* come out 0 or NaN, with the version of astropy.
convolve_fft(shape, array, width, mask) ==
    LET Valid(c) == c \notin mask /\ isfinite(array[c])
        InvalidIn(c) == {q \in Window(shape, c, width) : ~Valid(q)}
        Weight(c) == width * width - Cardinality(InvalidIn(c))
        NoWeight == {c \in Cells(shape) : Weight(c) = 0}
        Smooth(c) == Rat(SumOver(Window(shape, c, width) \ InvalidIn(c), array),
                         Weight(c))
    IN  {[c \in Cells(shape) |-> IF c \in NoWeight THEN z ELSE Smooth(c)] :
            z \in {Float(0), NaN}}

\* A repair that takes the smoothed array for the whole image.
compose_all(array, mask, smoothed) == smoothed

\* data[badpix_mask] = smoothed_data[badpix_mask]
compose(array, mask, smoothed) ==
    [c \in DOMAIN array |-> IF c \in mask THEN smoothed[c] ELSE array[c]]

\* Lines 516-519: "Fix bad pixels with convolution".
ScaleRepair ==
    /\ pc = "masked"
    /\ \E sm \in convolve_fft(args.shape, data, args.kernel_width, badpix_mask) :
        /\ smoothed_data' = sm
        /\ data' = compose(data, badpix_mask, sm)
    /\ pc' = "repaired"
    /\ UNCHANGED <<plugin, dqvars, stat, interp, wcscall, imcall, args, hdr, dq, badpix_mask, zoomed,
                   outhdr, outfile, err>>

\* A check that looks at the repaired cells only.
all_finite_in_mask(array, mask) == \A c \in mask : isfinite(array[c])

\* np.all(np.isfinite(data))
all_finite(array, mask) == \A c \in DOMAIN array : isfinite(array[c])

\* Lines 521-523: "Should not have NaN in fixed image?"
ScaleCheck ==
    /\ pc = "repaired"
    /\ IF ~all_finite(data, badpix_mask)
       THEN pc' = "failed" /\ err' = "ValueError"
       ELSE pc' = "checked" /\ UNCHANGED err
    /\ UNCHANGED <<plugin, dqvars, stat, interp, wcscall, imcall, args, hdr, data, dq, badpix_mask,
                   smoothed_data, zoomed, outhdr, outfile>>

\* Python's round of n * z[1] / z[2]: to the nearest integer, a half to the
\* even one.
round_half_even(n, z) ==
    LET num == n * z[1]
        q == num \div z[2]
        r2 == 2 * (num % z[2])
    IN  IF r2 < z[2] THEN q
        ELSE IF r2 > z[2] THEN q + 1
        ELSE IF q % 2 = 0 THEN q ELSE q + 1

\* scipy.ndimage.zoom(array, zoom_factor): an array of the shape
\* round(n * zoom_factor) along each axis, resampled from the input.
zoom(shape, array, zoom_factor) ==
    [shape |-> <<round_half_even(shape[1], zoom_factor),
                 round_half_even(shape[2], zoom_factor)>>,
     zoom_factor |-> zoom_factor, of |-> array]

\* Lines 525-526: "Scale the data."
ScaleZoom ==
    /\ pc = "checked"
    /\ zoomed' = zoom(args.shape, data, args.zoom_factor)
    /\ pc' = "zoomed"
    /\ UNCHANGED <<plugin, dqvars, stat, interp, wcscall, imcall, args, hdr, data, dq, badpix_mask,
                   smoothed_data, outhdr, outfile, err>>

\* Lines 528-529: "Adjust WCS"
ScaleWcs ==
    /\ pc = "zoomed"
    /\ LET r == scale_wcs(hdr, args.zoom_factor)
       IN  IF r.status = "ok"
           THEN pc' = "rescaled" /\ outhdr' = r.hdr /\ UNCHANGED err
           ELSE pc' = "failed" /\ err' = r.status /\ UNCHANGED outhdr
    /\ UNCHANGED <<plugin, dqvars, stat, interp, wcscall, imcall, args, hdr, data, dq, badpix_mask,
                   smoothed_data, zoomed, outfile>>

\* A write that does not wait for the WCS: the output file is written as
\* soon as the data are resampled.
ScaleWriteEarly ==
    /\ pc \in {"zoomed", "rescaled"}
    /\ outfile.writes = 0
    /\ outfile' = [exists |-> TRUE, data |-> zoomed, header |-> outhdr,
                   writes |-> outfile.writes + 1]
    /\ pc' = IF pc = "rescaled" THEN "written" ELSE pc
    /\ UNCHANGED <<plugin, dqvars, stat, interp, wcscall, imcall, args, hdr, data, dq, badpix_mask,
                   smoothed_data, zoomed, outhdr, err>>

\* Lines 531-534: "Write to output file"
ScaleWrite ==
    /\ pc = "rescaled"
    /\ outfile' = [exists |-> TRUE, data |-> zoomed, header |-> outhdr,
                   writes |-> outfile.writes + 1]
    /\ pc' = "written"
    /\ UNCHANGED <<plugin, dqvars, stat, interp, wcscall, imcall, args, hdr, data, dq, badpix_mask,
                   smoothed_data, zoomed, outhdr, err>>

NextScale ==
    \/ ScaleOpen
    \/ ScaleMask
    \/ ScaleRepair
    \/ ScaleCheck
    \/ ScaleZoom
    \/ ScaleWcs
    \/ ScaleWrite

\* A call of scale_image_with_dq with a parser made of ScaleDefinition.
InitScale(a) ==
    /\ tab = ScaleTable
    /\ parser = "ready"
    /\ deffile = ScaleDefinition
    /\ dqcall = NoCall
    /\ stat = NoStat
    /\ plugin = NoPlugin
    /\ interp = NoInterp
    /\ wcscall = NoWcsCall
    /\ imcall = NoImageCall
    /\ ScaleIdle
    /\ args = a

\* Calls that differ in the DQ array, bad_flag and ignore_edge_pixels.
InitScaleMask ==
    \E shape \in ScaleShapes :
        \E dqarr \in DQArrays(shape, 0..MaxFlag) :
            \E bad_flag \in 0..MaxFlag, edge \in 0..MaxEdge :
                InitScale(ScaleArgs(shape, TestRamp(shape), dqarr, bad_flag,
                                    edge, 3, <<1, 1>>))

\* Calls that differ in the science array, the flagged cells, the kernel and
\* ignore_edge_pixels.
InitScaleRepair ==
    \E shape \in ScaleShapes :
        \E sci \in DataArrays(shape), dqarr \in DQArrays(shape, {0, 1}) :
            \E edge \in 0..MaxEdge, kernel_width \in {1, 3, KernelDefault} :
                InitScale(ScaleArgs(shape, sci, dqarr, 1, edge, kernel_width,
                                    <<1, 1>>))

SpecScaleMask == InitScaleMask /\ [][NextScale]_vars
SpecScaleRepair == InitScaleRepair /\ [][NextScale]_vars

----------------------------------------------------------------------------
(* scale_image.                                                            *)

\* The rows and the columns of the image of the tests.
TestSize == 10

ImageShapes == {<<TestSize, TestSize>>, <<MaxH, MaxW>>}
ImageHeaders ==
    {TestHeader, PlainHeader("XTENSION"),
     WcsHeader("CD", Matrix(Rat(1, 2), Float(0)), <<Float(1), Float(1)>>,
               <<Rat(9, 2), Rat(9, 2)>>, "deg", "", "XTENSION"),
     WcsHeader("CROTA", Matrix(Float(1), Float(0)), <<Float(1), Float(1)>>,
               <<Rat(9, 2), Rat(9, 2)>>, "deg", "", "XTENSION")}

ImageResult(status, array, header, written) ==
    [status |-> status, data |-> array, outhdr |-> header, written |-> written]

\* scale_image(infile, outfile, zoom_factor, ext, clobber): the outcome of
\* the call for the extension (shape, ndim, header, ramp data) of infile.
scale_image(shape, ndim, exthdr, prihdr, exists, zoom_factor, clobber) ==
    IF ~clobber /\ exists
    THEN ImageResult("returned", NoArray, NoHeader, FALSE)
    ELSE IF ndim # 2
    THEN ImageResult("ValueError", NoArray, NoHeader, FALSE)
    ELSE LET inherited == [exthdr EXCEPT !.str = inherit(exthdr.str, prihdr)]
             zoomed_data == zoom(shape, TestRamp(shape), zoom_factor)
             r == scale_wcs(inherited, zoom_factor)
         IN  IF r.status # "ok"
             THEN ImageResult(r.status, zoomed_data, NoHeader, FALSE)
             ELSE ImageResult("written", zoomed_data, r.hdr, TRUE)

\* A call of scale_image, followed from its inputs to its outcome.
ScaleImage ==
    /\ imcall.op = "none"
    /\ \E shape \in ImageShapes, ndim \in {2, 3}, exthdr \in ImageHeaders :
        \E exists \in BOOLEAN, clobber \in BOOLEAN, zoom_factor \in ZoomFactors :
            LET r == scale_image(shape, ndim, exthdr, TestPrimary, exists,
                                 zoom_factor, clobber)
            IN  imcall' = [op |-> "scale_image", shape |-> shape, ndim |-> ndim,
                           hdr |-> exthdr, existed |-> exists, clobber |-> clobber,
                           zoom_factor |-> zoom_factor, status |-> r.status,
                           data |-> r.data, outhdr |-> r.outhdr,
                           written |-> r.written]
    /\ UNCHANGED <<plugin, dqvars, stat, interp, wcscall, scalevars>>

InitImage == InitDQ

SpecImage == InitImage /\ [][ScaleImage]_vars

----------------------------------------------------------------------------
(* scale_image and scale_image_with_dq on one input file.                  *)

\* Primary headers: none of the inheritable keywords, the tests' primary
\* header, one with two inheritable keywords and a keyword that is not
\* inherited, and one with a DATE-OBS.
PrimaryHeaders ==
    {<<>>, TestPrimary,
     ("INSTRUME" :> "ACS") @@ ("FILTER" :> "F606W") @@ ("TELESCOP" :> "HST"),
     ("INSTRUME" :> "ACS") @@ ("DATE-OBS" :> OldDate)}

\* The inheritable keywords the extension header has itself.
OwnCards ==
    {<<>>, "INSTRUME" :> "WFC3", "FILTER" :> "CLEAR", "DATE-OBS" :> OldDate,
     "DATE-OBS" :> IsoDate}

\* The extension headers of the files: the tests' header and a header with
\* neither PC nor CD matrix, each with the keywords of OwnCards.
FileHeaders ==
    {[h EXCEPT !.str = Updated(h.str, own)] :
        h \in {TestHeader,
                WcsHeader("CROTA", Matrix(Float(1), Float(0)),
                          <<Float(1), Float(1)>>, <<Rat(9, 2), Rat(9, 2)>>,
                          "deg", "", "XTENSION")},
        own \in OwnCards}

\* The DQ arrays of the files: no flag, bad_flag at a corner, bad_flag at
\* the centre.
FileDQArrays(shape) ==
    {[c \in Cells(shape) |-> IF c \in m THEN 1 ELSE 0] :
        m \in {{}, {<<0, 0>>}, {<<shape[1] \div 2, shape[2] \div 2>>}}}

\* The science arrays of the files: the ramp, and the ramp with a NaN in
\* its first cell.
FileDataArrays(shape) ==
    {TestRamp(shape), [TestRamp(shape) EXCEPT ![<<0, 0>>] = NaN]}

\* An output file left by an earlier run.
EarlierFile ==
    [exists |-> TRUE, data |-> NoArray, header |-> NoHeader, writes |-> 0]

\* The zoom factors of the calls: a half, and two.
FileZooms == {<<1, 2>>, <<2, 1>>}

\* scale_image(infile, ..) on the input file of the scale_image_with_dq
\* call, with the same science extension and zoom_factor and an output file
\* of its own that does not exist yet.
ScaleImageOfInput ==
    /\ imcall.op = "none"
    /\ args # NoArgs
    /\ LET r == scale_image(args.shape, args.ndim, args.hdr, args.prihdr,
                            FALSE, args.zoom_factor, FALSE)
       IN  imcall' = [op |-> "scale_image", shape |-> args.shape,
                      ndim |-> args.ndim, hdr |-> args.hdr, existed |-> FALSE,
                      clobber |-> FALSE, zoom_factor |-> args.zoom_factor,
                      status |-> r.status, data |-> r.data,
                      outhdr |-> r.outhdr, written |-> r.written]
    /\ UNCHANGED <<plugin, dqvars, stat, interp, wcscall, scalevars>>

\* A call of scale_image_with_dq on a file, with the parser made of a
\* definition file, the output file being the one an earlier run left, if
\* any.
InitScaleCall(t, file, a) ==
    /\ tab = t
    /\ parser = "ready"
    /\ deffile = file
    /\ dqcall = NoCall
    /\ stat = NoStat
    /\ plugin = NoPlugin
    /\ interp = NoInterp
    /\ wcscall = NoWcsCall
    /\ imcall = NoImageCall
    /\ pc = "idle"
    /\ hdr = NoHeader
    /\ data = NoArray
    /\ dq = NoArray
    /\ badpix_mask = {}
    /\ smoothed_data = NoArray
    /\ zoomed = NoArray
    /\ outhdr = NoHeader
    /\ outfile = a.outfile
    /\ err = "none"
    /\ args = a

\* The call with the parser made of ScaleDefinition.
InitScaleFile(a) == InitScaleCall(ScaleTable, ScaleDefinition, a)

\* Files that differ in their headers.
InitFileHeaders ==
    \E exthdr \in FileHeaders, prihdr \in PrimaryHeaders :
        \E dqarr \in FileDQArrays(<<MaxH, MaxW>>), edge \in 0..1 :
            InitScaleFile(
                [ScaleArgs(<<MaxH, MaxW>>, TestRamp(<<MaxH, MaxW>>), dqarr, 1,
                           edge, 3, <<1, 2>>)
                    EXCEPT !.hdr = exthdr, !.prihdr = prihdr])

\* Calls that differ in what can make a step fail: the number of
\* dimensions, bad_flag, the data, the WCS, the zoom factor, the output file.
InitFileSteps ==
    \E sci \in FileDataArrays(<<MaxH, MaxW>>),
       dqarr \in FileDQArrays(<<MaxH, MaxW>>) :
        \E bad_flag \in 0..MaxFlag, edge \in 0..MaxEdge, ndim \in {2, 3} :
            \E exthdr \in FileHeaders, zoom_factor \in FileZooms :
                \E prior \in {NoFile, EarlierFile}, overwrite \in BOOLEAN :
                    /\ DOMAIN exthdr.str \cap InheritKeys = {}
                    /\ InitScaleFile(
                          [ScaleArgs(<<MaxH, MaxW>>, sci, dqarr, bad_flag,
                                     edge, 3, zoom_factor)
                              EXCEPT !.hdr = exthdr, !.ndim = ndim,
                                     !.overwrite = overwrite,
                                     !.outfile = prior])

NextScaleFile == NextScale \/ ScaleImageOfInput

SpecScaleFile ==
    (InitFileHeaders \/ InitFileSteps) /\ [][NextScaleFile]_vars

\* The definition files of the parsers handed to scale_image_with_dq: the
\* one of ScaleDefinition, and one with two rows of flag 0.
ParserDefinitions ==
    {ScaleDefinition, [flags |-> <<0, 0, 1>>, comments |-> TRUE]}

\* Calls that differ in the parser, the DQ array and bad_flag.
InitScaleParser ==
    \E file \in ParserDefinitions :
        \E t \in table_sort(add_ok_row(ascii_read(file))) :
            \E dqarr \in DQArrays(<<MaxH, MaxW>>, 0..MaxFlag),
               bad_flag \in 0..MaxFlag, edge \in 0..1 :
                InitScaleCall(t, file,
                              ScaleArgs(<<MaxH, MaxW>>, TestRamp(<<MaxH, MaxW>>),
                                        dqarr, bad_flag, edge, 3, <<1, 1>>))

SpecScaleParser == InitScaleParser /\ [][NextScale]_vars

----------------------------------------------------------------------------
(* The DQInspect plugin and its cache of pixel masks.                      *)

\* The extensions of the file the viewer can show.
Extensions == {"SCI", "DQ"}

\* The pixels of the DQ image and the values a pixel can have.
PluginPixels == {<<0, 0>>, <<0, 1>>}
PluginDQValues == {0, 1, 2, 3}
PluginDQArrays == [PluginPixels -> PluginDQValues]

\* BadPixCorr._dq_fixed_flag, the flag fix_bpix writes into the DQ image.
dq_fixed_flag == 0

\* The values of _curpxmask and of the metadata entry 'dq_by_flags': None
\* or absent, the empty dict of __init__, a result of interpret_array.
NoMask == [kind |-> "none", mask |-> <<>>]
EmptyDict == [kind |-> "empty", mask |-> <<>>]
PixMask(m) == [kind |-> "mask", mask |-> m]

\* DQInspect.redo(ignore_image_cache) for a 2-D image of a file that has a
\* DQ extension.  When the image shown is not the DQ extension, redo calls
\* utils.autoload_ginga_image (line 399), which utils does not define: the
\* call ends there with AttributeError.  "pixmask_by_flag is
\* self._curpxmask" returns early when the assignment of line 456 would
\* change nothing.
redo(p, ignore_image_cache) ==
    IF ~p.gui_up THEN p
    ELSE IF p.displayed # "DQ" THEN [p EXCEPT !.status = "AttributeError"]
    ELSE LET cached == p.cache.kind = "mask" /\ ~ignore_image_cache
             pixmask_by_flag ==
                 IF cached THEN p.cache
                 ELSE PixMask(interpret_array(tab, p.dqdata))
         IN  [p EXCEPT !.cache = pixmask_by_flag,
                       !.curpxmask = pixmask_by_flag,
                       !.status = "ok"]

\* build_gui and start: the plugin is opened.
PluginStart ==
    /\ plugin.op # "none"
    /\ ~plugin.gui_up
    /\ plugin' = [plugin EXCEPT !.op = "start", !.gui_up = TRUE]
    /\ UNCHANGED <<dqvars, stat, interp, wcscall, imcall, scalevars>>

\* stop: _reset_imdq_on_error forgets _curpxmask, then gui_up = False.
PluginStop ==
    /\ plugin.op # "none"
    /\ plugin.gui_up
    /\ plugin' = [plugin EXCEPT !.op = "stop", !.curpxmask = NoMask,
                                !.gui_up = FALSE]
    /\ UNCHANGED <<dqvars, stat, interp, wcscall, imcall, scalevars>>

\* redo(): the viewer asks the plugin to redo, or the user picks a pixel.
PluginRedo ==
    /\ plugin.op # "none"
    /\ plugin.gui_up
    /\ plugin' = [redo(plugin, FALSE) EXCEPT !.op = "redo"]
    /\ UNCHANGED <<dqvars, stat, interp, wcscall, imcall, scalevars>>

\* The viewer shows another extension of the file, and calls redo().
ShowExtension ==
    /\ plugin.op # "none"
    /\ \E ext \in Extensions \ {plugin.displayed} :
        plugin' = [redo([plugin EXCEPT !.displayed = ext], FALSE)
                      EXCEPT !.op = "show"]
    /\ UNCHANGED <<dqvars, stat, interp, wcscall, imcall, scalevars>>

\* set_data on the science image: the callback of lines 125-126 calls
\* redo(ignore_image_cache=True).
ModifySci ==
    /\ plugin.op # "none"
    /\ plugin' = [redo(plugin, TRUE) EXCEPT !.op = "modify_sci"]
    /\ UNCHANGED <<dqvars, stat, interp, wcscall, imcall, scalevars>>

\* set_data(dqdata, metadata=dqsrc.metadata) on the DQ image: the data
\* change, the metadata (with 'dq_by_flags') stay, and the callback of
\* lines 125-126 calls redo(ignore_image_cache=True).
ModifyDQ ==
    /\ plugin.op # "none"
    /\ \E dqdata \in PluginDQArrays \ {plugin.dqdata} :
        plugin' = [redo([plugin EXCEPT !.dqdata = dqdata], TRUE)
                      EXCEPT !.op = "modify_dq"]
    /\ UNCHANGED <<dqvars, stat, interp, wcscall, imcall, scalevars>>

\* BadPixCorr.fix_bpix on the science image, for a pixel whose DQ value is
\* not the fixed flag: set_data on the science image (line 833), the viewer
\* switched to the DQ image (line 850), the fixed flag written (line 852),
\* set_data on the DQ image with its metadata (line 860).
FixBpix ==
    /\ plugin.op # "none"
    /\ plugin.displayed = "SCI"
    /\ \E c \in PluginPixels :
        /\ plugin.dqdata[c] # dq_fixed_flag
        /\ LET sci_set == redo(plugin, TRUE)
               switched == redo([sci_set EXCEPT !.displayed = "DQ"], FALSE)
               flagged == [switched EXCEPT !.dqdata[c] = dq_fixed_flag]
           IN  plugin' = [redo(flagged, TRUE) EXCEPT !.op = "fix_bpix"]
    /\ UNCHANGED <<dqvars, stat, interp, wcscall, imcall, scalevars>>

NextPlugin ==
    \/ PluginStart
    \/ PluginStop
    \/ PluginRedo
    \/ ShowExtension
    \/ ModifySci
    \/ ModifyDQ
    \/ FixBpix

\* The plugin as __init__ leaves it, for a file with a DQ image, one of its
\* extensions shown, and the parser of ScaleDefinition.
InitPlugin ==
    /\ tab = ScaleTable
    /\ parser = "ready"
    /\ deffile = ScaleDefinition
    /\ dqcall = NoCall
    /\ stat = NoStat
    /\ interp = NoInterp
    /\ wcscall = NoWcsCall
    /\ imcall = NoImageCall
    /\ ScaleIdle
    /\ args = NoArgs
    /\ \E ext \in Extensions, dqdata \in PluginDQArrays :
        plugin = [op |-> "init", gui_up |-> FALSE, displayed |-> ext,
                  dqdata |-> dqdata, cache |-> NoMask,
                  curpxmask |-> EmptyDict, status |-> "ok"]

SpecPlugin == InitPlugin /\ [][NextPlugin]_vars

----------------------------------------------------------------------------
(* Properties.                                                             *)

\* The non-zero flag values of a table.
NonZeroFlags(t) == {t[i].DQFLAG : i \in 1..Len(t)} \ {okflag}

\* C1: interpret_array(A) returns a mapping whose keys are exactly the
\* non-zero flag values of the table (0 is never a key), and the value of
\* each flag v is exactly the set of indices i with (A[i] & v) != 0, a subset
\* of the indices where A[i] != 0.
C1_InterpretArrayKeysAndMasks ==
    dqcall.op = "interpret_array" =>
        LET A == dqcall.data
            r == dqcall.dqs_by_flag
        IN  /\ DOMAIN r = NonZeroFlags(tab)
            /\ \A v \in DOMAIN r :
                /\ r[v] = {i \in DOMAIN A : BitAnd(A[i], v) # 0}
                /\ r[v] \subseteq {i \in DOMAIN A : A[i] # 0}

\* C2: interpret_dqval(code), code != 0, returns exactly the rows of the
\* table whose flag f is non-zero and has (code & f) != 0, in ascending order
\* of flag; the OK row is never among them.
C2_InterpretDqvalRows ==
    (dqcall.op = "interpret_dqval" /\ dqcall.dqval # 0) =>
        LET code == dqcall.dqval
            Wanted(row) == row.DQFLAG # 0 /\ BitAnd(code, row.DQFLAG) # 0
        IN  /\ dqcall.dqs = SelectSeq(tab, Wanted)
            /\ IsAscending(dqcall.dqs)
            /\ ~InColumn(dqcall.dqs, 0)

\* C2's case: a value with two bits matches the rows of both flags.
C2_Witness ==
    /\ dqcall.op = "interpret_dqval"
    /\ dqcall.dqval = 3
    /\ valid_flags(tab) = <<0, 1, 2>>
    /\ valid_flags(dqcall.dqs) = <<1, 2>>

\* C3: the table of a constructed parser is sorted ascending by flag, has
\* exactly one row with flag 0 (the row {0, OK, Good pixel} being added only
\* when the file has no zero row) and no two rows with the same flag.
C3_TableSortedOneZeroNoDuplicates ==
    parser = "ready" =>
        /\ IsAscending(tab)
        /\ Cardinality({i \in 1..Len(tab) : tab[i].DQFLAG = 0}) = 1
        /\ \A i, j \in 1..Len(tab) : tab[i].DQFLAG = tab[j].DQFLAG => i = j
        /\ (\E i \in 1..Len(tab) : tab[i].short = "OK")
              <=> ~(\E i \in 1..Len(deffile.flags) : deffile.flags[i] = 0)

\* C4: calc_stat on an empty sample returns 0.0 without an error, whatever
\* sigma, niter and algorithm are, an invalid algorithm name included.
C4_EmptySampleIsZero ==
    (stat.op = "calc_stat" /\ Len(stat.data) = 0) =>
        /\ stat.result.status = "ok"
        /\ stat.result.val = Float(0)

\* C4's case: an empty sample with a name that is no estimator.
C4_Witness ==
    /\ stat.op = "calc_stat"
    /\ stat.data = <<>>
    /\ stat.algorithm = "foo"
    /\ stat.result.status = "ok"

\* C5: calc_stat([1,1,1,1,1,1,1,1,1,100], sigma=2, niter=5, 'mean') discards
\* the 100, retains the nine 1s and returns exactly 1.0.
C5_OutlierScenario ==
    (/\ stat.op = "calc_stat"
     /\ stat.data = Outlier10
     /\ stat.sigma = <<2, 1>>
     /\ stat.niter = NiterScenario
     /\ stat.algorithm = "mean") =>
        /\ stat.result.status = "ok"
        /\ stat.result.retained = [i \in 1..9 |-> 1]
        /\ stat.result.val = Float(1)

\* C5's case: the scenario's call has been made.
C5_Witness ==
    /\ stat.op = "calc_stat"
    /\ stat.data = Outlier10
    /\ stat.sigma = <<2, 1>>
    /\ stat.niter = NiterScenario
    /\ stat.algorithm = "mean"
    /\ Len(stat.result.retained) = 9

\* C6: after a successful interpolate_badpix every cell outside badpix_mask
\* holds the value it had before the call, whatever the method.
C6_OnlyBadpixCellsChange ==
    (interp.op = "interpolate_badpix" /\ interp.status = "ok") =>
        \A c \in Cells(interp.shape) \ interp.badpix_mask.cells :
            interp.image[c] = interp.before[c]

\* C6's case: a successful cubic call that gave a bad cell, not a basis
\* cell, an interpolated value, and had a basis cell that is also bad.
C6_Witness ==
    /\ interp.op = "interpolate_badpix"
    /\ interp.status = "ok"
    /\ interp.method = "cubic"
    /\ interp.basis_mask.cells \cap interp.badpix_mask.cells # {}
    /\ \E c \in interp.badpix_mask.cells \ interp.basis_mask.cells :
            interp.image[c] = Interpolant(c)

\* C7: interpolate_badpix fails with an error when the method is not one of
\* nearest, linear, cubic and when basis_mask selects no cell, and in both
\* cases the image is left as it was.
C7_InvalidMethodOrEmptyBasisFails ==
    (/\ interp.op = "interpolate_badpix"
     /\ \/ interp.method \notin {"nearest", "linear", "cubic"}
        \/ interp.basis_mask.cells = {}) =>
        /\ interp.status # "ok"
        /\ interp.image = interp.before

\* The positions of scale_image_with_dq after the finite check has passed.
PastCheck == {"checked", "zoomed", "rescaled", "written"}

\* C8: scale_image_with_dq fails whenever, after the repair has been composed
\* into the image, any element of the whole image is non-finite, be it at a
\* cell that was never flagged; it then resamples nothing and writes no file.
C8_NonFiniteImageFails ==
    (/\ pc \in PastCheck \cup {"failed"}
     /\ \E c \in Cells(args.shape) : ~isfinite(data[c])) =>
        /\ pc = "failed"
        /\ err = "ValueError"
        /\ zoomed = NoArray
        /\ outfile = args.outfile

\* C8's case: the call failed at the check for a NaN or infinity at a cell
\* whose DQ value is 0, while a flagged cell was repaired to a finite value.
C8_Witness ==
    /\ pc = "failed"
    /\ err = "ValueError"
    /\ \E c \in Cells(args.shape) : dq[c] = 0 /\ ~isfinite(data[c])
    /\ \E c \in badpix_mask : isfinite(data[c])
    /\ zoomed = NoArray
    /\ ~outfile.exists

\* C9: for a flag bad_flag of the table the repair mask holds the cell (y, x)
\* if and only if (dq[y, x] & bad_flag) != 0 and
\* ignore_edge_pixels <= y < H - ignore_edge_pixels and
\* ignore_edge_pixels <= x < W - ignore_edge_pixels, for every
\* ignore_edge_pixels >= 0; and the mask is made for every non-zero flag of
\* the table.
C9_RepairMaskIsFlaggedInterior ==
    /\ (pc = "failed" /\ err = "KeyError") => args.bad_flag \notin NonZeroFlags(tab)
    /\ (pc \notin {"idle", "opened", "returned"} /\ err # "KeyError") =>
        LET e == args.ignore_edge_pixels
            H == args.shape[1]
            W == args.shape[2]
        IN  /\ args.bad_flag \in NonZeroFlags(tab)
            /\ badpix_mask =
                 {c \in Cells(args.shape) :
                     /\ BitAnd(dq[c], args.bad_flag) # 0
                     /\ e <= c[1] /\ c[1] < H - e
                     /\ e <= c[2] /\ c[2] < W - e}

\* C9's case: with a border of one pixel, the mask holds a cell whose DQ
\* value combines bad_flag with another bit, and leaves out a border cell
\* that carries bad_flag and a cell that carries another bit only.
C9_Witness ==
    /\ pc = "masked"
    /\ args.ignore_edge_pixels = 1
    /\ \E c \in badpix_mask : dq[c] # args.bad_flag
    /\ \E c \in Cells(args.shape) \ badpix_mask :
            BitAnd(dq[c], args.bad_flag) # 0
    /\ \E c \in Cells(args.shape) \ badpix_mask :
            dq[c] # 0 /\ BitAnd(dq[c], args.bad_flag) = 0

\* C10: after the repair step, and until the image is resampled, every cell
\* that is not in the repair mask holds the value it had in the input image;
\* only cells of the repair mask take the smoothed value.
C10_UnmaskedCellsKeepInput ==
    (pc \in PastCheck \cup {"repaired"} \/ (pc = "failed" /\ err = "ValueError")) =>
        \A c \in Cells(args.shape) :
            /\ c \notin badpix_mask => data[c] = args.sci[c]
            /\ data[c] # args.sci[c] => data[c] = smoothed_data[c]

\* C10's case: the repair gave a flagged cell a smoothed value that is not
\* its input value, and left alone a cell whose smoothed value differs from
\* its input value.
C10_Witness ==
    /\ pc = "repaired"
    /\ \E c \in badpix_mask :
            data[c] = smoothed_data[c] /\ data[c] # args.sci[c]
    /\ \E c \in Cells(args.shape) \ badpix_mask :
            smoothed_data[c] # args.sci[c] /\ data[c] = args.sci[c]

\* The zoom factor as a number, and its reciprocal.
ZoomValue(z) == Rat(z[1], z[2])
InverseZoom(z) == Rat(z[2], z[1])

\* The header handed to scale_wcs gives PCi_j and CDELTi, in degrees.
PCForm(h) == PCKeys \subseteq DOMAIN h.num /\ StrOr(h, "CUNIT1", "deg") = "deg"
\* The header handed to scale_wcs gives CDi_j and no PCi_j, in degrees.
CDForm(h) ==
    /\ CDKeys \subseteq DOMAIN h.num
    /\ PCKeys \cap DOMAIN h.num = {}
    /\ StrOr(h, "CUNIT1", "deg") = "deg"

\* C11: for a header in PC + CDELT form (in degrees) and every zoom_factor
\* > 0, scale_wcs returns a header whose CDELT1 and CDELT2 are the input's
\* multiplied by exactly 1/zoom_factor, whether 1/zoom_factor is an integer
\* or not.
C11_CdeltTimesInverseZoom ==
    (wcscall.op # "none" /\ PCForm(wcscall.input_hdr)) =>
        /\ wcscall.status = "ok"
        /\ \A i \in Axes :
            wcscall.hdr.num[AxisKey("CDELT", i)] =
                RatMul(wcscall.input_hdr.num[AxisKey("CDELT", i)],
                       InverseZoom(wcscall.zoom_factor))

\* Two numbers that are equal to the 14 significant digits to_header writes.
SameNumber(a, b) == a.n = b.n /\ a.d = b.d

\* C12 as stated: for every input header and zoom factor the header
\* scale_wcs returns has the same CRVAL1, CRVAL2, CTYPE, CUNIT and RADESYS
\* values as the input, and for PC-form input the same PCi_j values.
C12_ReferenceAndRotationKept ==
    (wcscall.op # "none" /\ wcscall.status = "ok") =>
        LET in == wcscall.input_hdr
            out == wcscall.hdr
        IN  /\ \A k \in {"CRVAL1", "CRVAL2"} \cap DOMAIN in.num :
                    SameNumber(out.num[k], in.num[k])
            /\ \A k \in {"CTYPE1", "CTYPE2", "CUNIT1", "CUNIT2", "RADESYS"}
                            \cap DOMAIN in.str :
                    out.str[k] = in.str[k]
            /\ \A k \in PCKeys \cap DOMAIN in.num :
                    SameNumber(out.num[k], in.num[k])

\* C12 as amended: the header scale_wcs returns has the same CTYPE and
\* RADESYS values and, for PC-form input, the same PCi_j values as the
\* input, and the same reference world coordinate in degrees: CUNIT is
\* 'deg' and CRVAL is the input's CRVAL taken to degrees (the input's CRVAL
\* and CUNIT themselves when the input is in degrees), numbers being kept
\* to 14 significant digits.
C12_ReferenceKeptInDegrees ==
    (wcscall.op # "none" /\ wcscall.status = "ok") =>
        LET in == wcscall.input_hdr
            out == wcscall.hdr
        IN  /\ \A i \in Axes :
                AxisKey("CRVAL", i) \in DOMAIN in.num =>
                    SameNumber(out.num[AxisKey("CRVAL", i)],
                               RatMul(in.num[AxisKey("CRVAL", i)],
                                      UnitScale(StrOr(in, AxisKey("CUNIT", i), "deg"))))
            /\ \A i \in Axes :
                AxisKey("CUNIT", i) \in DOMAIN in.str =>
                    out.str[AxisKey("CUNIT", i)] = "deg"
            /\ \A k \in {"CTYPE1", "CTYPE2", "RADESYS"} \cap DOMAIN in.str :
                    out.str[k] = in.str[k]
            /\ \A k \in PCKeys \cap DOMAIN in.num :
                    SameNumber(out.num[k], in.num[k])

\* C12's case: a call that halved a PC-form image given in arcseconds: it
\* moved CRPIX, doubled CDELT and kept CTYPE, RADESYS and a PC matrix that
\* is not the unit matrix.
C12_Witness ==
    /\ wcscall.op = "scale_wcs"
    /\ wcscall.status = "ok"
    /\ wcscall.zoom_factor = <<1, 2>>
    /\ PCKeys \subseteq DOMAIN wcscall.input_hdr.num
    /\ wcscall.input_hdr.num["PC1_2"] # Float(0)
    /\ StrOr(wcscall.input_hdr, "CUNIT1", "") = "arcsec"
    /\ "RADESYS" \in DOMAIN wcscall.input_hdr.str
    /\ wcscall.hdr.num["CRPIX1"] # wcscall.input_hdr.num["CRPIX1"]
    /\ wcscall.hdr.num["PC1_2"] = wcscall.input_hdr.num["PC1_2"]

\* The call of the tests: the 10x10 ramp, a PC-form header, zoom_factor 0.5,
\* no output file in the way.
HalvedTestImage ==
    /\ imcall.op = "scale_image"
    /\ imcall.shape = <<TestSize, TestSize>>
    /\ imcall.ndim = 2
    /\ imcall.zoom_factor = <<1, 2>>
    /\ imcall.clobber \/ ~imcall.existed
    /\ PCForm(imcall.hdr)
    /\ {"CRPIX1", "CRPIX2", "CDELT1", "CDELT2"} \subseteq DOMAIN imcall.hdr.num

C14_CdTimesInverseZoom ==
    (wcscall.op # "none" /\ CDForm(wcscall.input_hdr)) =>
        /\ wcscall.status = "ok"
        /\ \A k \in CDKeys :
            SameNumber(wcscall.hdr.num[k],
                       RatMul(wcscall.input_hdr.num[k],
                              InverseZoom(wcscall.zoom_factor)))
        /\ PCKeys \cap DOMAIN wcscall.hdr.num = {}

\* C15: scale_wcs never changes the header it is handed: after the call,
\* whether it returned a header or raised, input_hdr has the keys and the
\* values it had before, XTENSION included and SIMPLE not inserted; the
\* header returned is another object.
C15_InputHeaderUntouched ==
    wcscall.op # "none" => wcscall.after = wcscall.input_hdr

\* C15's case: a call that returned a header without XTENSION, with SIMPLE
\* and with another CRPIX1, for an input header that has XTENSION.
C15_Witness ==
    /\ wcscall.op = "scale_wcs"
    /\ wcscall.status = "ok"
    /\ "XTENSION" \in DOMAIN wcscall.input_hdr.str
    /\ "XTENSION" \notin DOMAIN wcscall.hdr.str
    /\ "SIMPLE" \in DOMAIN wcscall.hdr.str
    /\ "CRPIX1" \in DOMAIN wcscall.input_hdr.num
    /\ wcscall.hdr.num["CRPIX1"] # wcscall.input_hdr.num["CRPIX1"]
    /\ wcscall.after = wcscall.input_hdr

\* The linear transforms two headers give are equal: CRPIX, CDELT, PC and
\* CRVAL as wcslib reads them.
SameTransform(g, h) ==
    \A i \in Axes :
        /\ SameNumber(WCS(g).crpix[i], WCS(h).crpix[i])
        /\ SameNumber(WCS(g).cdelt[i], WCS(h).cdelt[i])
        /\ SameNumber(WCS(g).crval[i], WCS(h).crval[i])
        /\ \A j \in Axes : SameNumber(WCS(g).pc[i][j], WCS(h).pc[i][j])

\* C16: scale_wcs with the zoom factor 1/z and then, on the header it
\* returned, with the zoom factor z gives a linear transform (CRPIX, scale
\* or CD, PC, CRVAL) equal to the original, for the zoom factors 1/z whose
\* slicing stride z is an exact integer.
C16_RoundTripIsIdentity ==
    (wcscall.op = "round_trip" /\ wcscall.zoom_factor[1] = 1) =>
        /\ wcscall.back_status = "ok"
        /\ SameTransform(wcscall.back_hdr, wcscall.input_hdr)

\* C17: interpret_dqval(0) returns exactly one row, the row with flag 0,
\* for every table of a constructed parser, the zero row having come from the
\* file or having been added.
C17_OkValueReturnsTheOkRow ==
    (dqcall.op = "interpret_dqval" /\ dqcall.dqval = okflag) =>
        /\ Len(dqcall.dqs) = 1
        /\ dqcall.dqs[1].DQFLAG = okflag

\* Whether two rows of a definition file have the same flag.
HasDuplicateFlags(file) ==
    \E i, j \in 1..Len(file.flags) :
        i # j /\ file.flags[i] = file.flags[j]

\* C18: constructing a DQParser from a definition file in which two rows
\* have the same flag fails with an error and produces no parser.
C18_DuplicateFlagsAreRejected ==
    (parser # "none" /\ HasDuplicateFlags(deffile)) => parser = "failed"

\* The four estimators of calc_stat.
Estimators == {"mean", "median", "mode", "stddev"}

\* C19 as stated: calc_stat on a non-empty sample fails with an error for
\* every algorithm name other than mean, median, mode, stddev (compared
\* without regard to case) and returns a value without error for those four.
C19_NonEmptySampleValidatesName ==
    (stat.op = "calc_stat" /\ Len(stat.data) >= 1) =>
        IF lower(stat.algorithm) \in Estimators
        THEN stat.result.status = "ok" /\ stat.result.val.k # "nan"
        ELSE stat.result.status = "ValueError"

\* C19, amended: when the clipping retains at least one element, calc_stat
\* fails for every name other than the four (compared without regard to case)
\* and returns the named statistic of the retained sample for the four; when
\* the clipping retains nothing it returns 0.0 without error for every name.
C19_RetainedSampleValidatesName ==
    (stat.op = "calc_stat" /\ Len(stat.data) >= 1) =>
        IF Len(stat.result.retained) = 0
        THEN stat.result.status = "ok" /\ stat.result.val = Float(0)
        ELSE IF lower(stat.algorithm) \in Estimators
             THEN /\ stat.result.status = "ok"
                  /\ stat.result.val.k # "nan"
                  /\ stat.result.val =
                        statistic(stat.result.retained, lower(stat.algorithm))
             ELSE stat.result.status = "ValueError"

\* C19's case: a name that is no estimator is refused for a sample of which
\* the clipping keeps both elements.
C19_Witness ==
    /\ stat.op = "calc_stat"
    /\ stat.data = <<0, 100>>
    /\ stat.algorithm = "foo"
    /\ stat.result.retained = <<0, 100>>
    /\ stat.result.status = "ValueError"

\* No element of the sample lies more than sigma standard deviations from
\* the median: (x - median)^2 <= sigma^2 * variance for every element x.
NoOutliers(arr, sigma) ==
    \A i \in 1..Len(arr) :
        (2 * arr[i] - median2(arr)) * (2 * arr[i] - median2(arr))
                * Len(arr) * Len(arr) * sigma[2] * sigma[2]
            <= 4 * sigma[1] * sigma[1] * variance_n2(arr)

\* C20: for a sample of which no element lies more than sigma spreads from
\* the median, calc_stat retains the whole sample and returns the same
\* result for every niter.
C20_NiterIrrelevantWithoutOutliers ==
    (/\ stat.op = "calc_stat"
     /\ Len(stat.data) >= 1
     /\ NoOutliers(stat.data, stat.sigma)) =>
        /\ stat.result.retained = stat.data
        /\ \A niter \in Niters :
              calc_stat(stat.data, stat.sigma, niter, stat.algorithm,
                        stat.ASTROPY_LT_3_1) = stat.result

\* C20's case: a sample with both elements on the clipping bound, clipped
\* with the default niter, keeps both elements and returns their mean.
C20_Witness ==
    /\ stat.op = "calc_stat"
    /\ stat.data = <<0, 100>>
    /\ stat.sigma = <<1, 1>>
    /\ stat.niter = NiterDefault
    /\ stat.algorithm = "mean"
    /\ stat.result.retained = <<0, 100>>
    /\ stat.result.val = Float(50)

\* C21: after interpolate_badpix with method nearest every cell of
\* badpix_mask holds a value that some cell of basis_mask held before the
\* call.
C21_NearestFillsWithBasisValues ==
    (/\ interp.op = "interpolate_badpix"
     /\ interp.status = "ok"
     /\ interp.method = "nearest") =>
        \A c \in interp.badpix_mask.cells :
            \E b \in interp.basis_mask.cells :
                interp.image[c] = interp.before[b]

\* C22: scale_image_with_dq refuses, before any smoothing is done, every
\* kernel_width that exceeds a dimension of the image, the default 99 for an
\* image of fewer than 99 pixels on a side included.
C22_KernelWiderThanImageRejected ==
    (/\ args # NoArgs
     /\ \/ args.kernel_width > args.shape[1]
        \/ args.kernel_width > args.shape[2]) =>
        /\ pc \notin {"repaired"} \cup PastCheck
        /\ smoothed_data = NoArray

\* Whether the header out carries, for each of the keywords keys, the value
\* the extension header has if it has the keyword, else the value of the
\* primary header if that has it, and else lacks the keyword.
CarriesInherited(keys, exthdr, prihdr, out) ==
    \A k \in keys :
        IF k \in DOMAIN exthdr.str
        THEN k \in DOMAIN out.str /\ out.str[k] = exthdr.str[k]
        ELSE IF k \in DOMAIN prihdr
        THEN k \in DOMAIN out.str /\ out.str[k] = prihdr[k]
        ELSE k \notin DOMAIN out.str

\* Whether the header out has DATE-OBS exactly when the extension header or
\* the primary header has it, with the extension header's date before the
\* primary's, in the ISO format when the date was in the old format.
CarriesDate(exthdr, prihdr, out) ==
    LET k == "DATE-OBS" IN
    IF k \in DOMAIN exthdr.str
    THEN k \in DOMAIN out.str /\ out.str[k] = datfix(exthdr.str[k])
    ELSE IF k \in DOMAIN prihdr
    THEN k \in DOMAIN out.str /\ out.str[k] = datfix(prihdr[k])
    ELSE k \notin DOMAIN out.str

NoMatrix(h) == (PCKeys \cup CDKeys) \cap DOMAIN h.num = {}

\* C24: scale_wcs fails with an error, and returns no header, for every
\* input header that has neither a PC matrix nor a CD matrix.
C24_NoMatrixFails ==
    (wcscall.op = "scale_wcs" /\ NoMatrix(wcscall.input_hdr)) =>
        /\ wcscall.status # "ok"
        /\ wcscall.hdr = NoHeader

\* Whether the sequence s is the sequence t with some elements left out.
RECURSIVE IsSubSample(_, _)
IsSubSample(s, t) ==
    IF s = <<>> THEN TRUE
    ELSE IF t = <<>> THEN FALSE
    ELSE IF Head(s) = Head(t) THEN IsSubSample(Tail(s), Tail(t))
    ELSE IsSubSample(s, Tail(t))

\* C25: the clipping inside calc_stat makes at most niter passes (none when
\* niter = 0), each discarding exactly the elements farther than sigma
\* standard deviations from the median of the elements retained so far, and
\* stops when a pass discards nothing; the retained sample is a part of the
\* input and the statistic is computed over the retained elements only.
C25_ClipsAtMostNiterPasses ==
    (stat.op = "calc_stat" /\ Len(stat.data) >= 1) =>
        /\ stat.result.retained = clip_loop(stat.data, stat.sigma, stat.niter)
        /\ stat.niter = 0 => stat.result.retained = stat.data
        /\ IsSubSample(stat.result.retained, stat.data)
        /\ (stat.result.status = "ok" /\ stat.result.retained # <<>>) =>
              stat.result.val =
                  statistic(stat.result.retained, lower(stat.algorithm))

\* C26: a call of scale_wcs with a zoom factor above 1, on a header that
\* has a PC or a CD matrix, works with the stride 1: it returns a header
\* without error, CRPIX being the input's.
C26_ZoomAboveOneUsesStrideOne ==
    (/\ wcscall.op = "scale_wcs"
     /\ wcscall.zoom_factor[1] > wcscall.zoom_factor[2]
     /\ ~NoMatrix(wcscall.input_hdr)) =>
        /\ wcscall.status = "ok"
        /\ \A i \in Axes :
              SameNumber(WCS(wcscall.hdr).crpix[i],
                         WCS(wcscall.input_hdr).crpix[i])

\* The steps of scale_image_with_dq in the order of the code: the file is
\* opened and the dimensions checked, the mask computed, the image repaired,
\* checked for non-finite values, resampled, the WCS rescaled, the output
\* written.
StepOrder ==
    <<"idle", "opened", "masked", "repaired", "checked", "zoomed", "rescaled",
      "written">>

\* A step of the call goes to the next position of StepOrder, or fails where
\* a step can fail, or returns at once; the output file changes in the last
\* step only, and the input is never changed.
StepsInOrder ==
    /\ pc' # pc =>
          \/ \E i \in 1..(Len(StepOrder) - 1) :
                pc = StepOrder[i] /\ pc' = StepOrder[i + 1]
          \/ pc' = "failed" /\ pc \in {"idle", "opened", "repaired", "zoomed"}
          \/ pc' = "returned" /\ pc = "idle"
    /\ outfile' # outfile =>
          /\ pc = "rescaled"
          /\ pc' = "written"
          /\ outfile'.writes = 1
    /\ args' = args

\* C27 as stated: scale_image_with_dq runs its steps in the fixed order and
\* writes the output file at most once, as the last step; when an earlier
\* step fails no output file exists afterwards and the input is unchanged.
C27_OrderAndNoOutputFileOnFailure ==
    /\ [][StepsInOrder]_vars
    /\ [](outfile.writes <= 1)
    /\ [](pc = "failed" => ~outfile.exists)

\* C27, amended: the steps run in the fixed order and the output file is
\* written at most once, as the last step; when an earlier step fails the
\* call has written nothing: the output file is as it was before the call,
\* absent if it was absent, the file of the earlier run if there was one.
C27_OrderAndNoWriteOnFailure ==
    /\ [][StepsInOrder]_vars
    /\ [](outfile.writes <= 1)
    /\ [](pc \in {"failed", "returned"} =>
            outfile = args.outfile /\ outfile.writes = 0)
    /\ [](pc = "written" => outfile.writes = 1)

\* C27's case: with overwrite set and an output file of an earlier run, the
\* call has repaired the image and failed at the check for non-finite
\* values; the earlier file is still there.
C27_Witness ==
    /\ pc = "failed"
    /\ err = "ValueError"
    /\ args.ndim = 2
    /\ args.overwrite
    /\ args.outfile.exists
    /\ smoothed_data # NoArray
    /\ outfile = EarlierFile

\* bad_flag is a non-zero flag of the parser's table.
SupportedFlag(t, bad_flag) == bad_flag # 0 /\ InColumn(t, bad_flag)

\* C28: for a bad_flag that is not a non-zero flag of the parser's table
\* (0, a compound value, a bit the table does not define)
\* scale_image_with_dq fails before the image is repaired or any output is
\* written.
C28_UnsupportedBadFlagFails ==
    (/\ args # NoArgs
     /\ pc \notin {"idle", "returned"}
     /\ ~SupportedFlag(tab, args.bad_flag)) =>
        /\ pc \in {"opened", "failed"}
        /\ smoothed_data = NoArray
        /\ outfile.writes = 0

\* scale_image_with_dq has run to its end on a finite 2-D image with a
\* bad_flag of the table, no cell was left in the repair mask, and
\* scale_image has been called on the same file.
NothingToRepair ==
    /\ args # NoArgs
    /\ args.ndim = 2
    /\ \A c \in DOMAIN args.sci : isfinite(args.sci[c])
    /\ pc \in {"written", "failed"}
    /\ err # "KeyError"
    /\ badpix_mask = {}
    /\ imcall.op = "scale_image"

\* C29: when the image is 2-D and finite and no cell is left in the repair
\* mask once the border is cleared, scale_image_with_dq writes exactly the
\* data and the header scale_image writes for the same file, extension and
\* zoom_factor, and fails where scale_image fails.
C29_SameOutputAsScaleImage ==
    NothingToRepair =>
        /\ pc = "written" <=> imcall.status = "written"
        /\ pc = "written" =>
              /\ outfile.data = imcall.data
              /\ outfile.header = imcall.outhdr
        /\ pc = "failed" => err = imcall.status

\* C29's case: a cell of the border carries bad_flag and the border is
\* ignored, so that the mask is empty though the image was smoothed; both
\* functions have written their output.
C29_Witness ==
    /\ NothingToRepair
    /\ pc = "written"
    /\ imcall.status = "written"
    /\ args.ignore_edge_pixels >= 1
    /\ \E c \in DOMAIN args.dq : BitAnd(args.dq[c], args.bad_flag) # 0
    /\ smoothed_data # NoArray
    /\ smoothed_data # args.sci
    /\ outfile.data = imcall.data

\* C30: after every sequence of redo calls, image-modification callbacks
\* and modifications of the DQ array, the mask cached under 'dq_by_flags' in
\* the metadata of the DQ image, and _curpxmask, are interpret_array of the
\* current data of the DQ image, whichever extension is shown (stated for
\* the states where the plugin is open).
C30_CachedMaskMatchesDQData ==
    (plugin.op # "none" /\ plugin.gui_up) =>
        /\ plugin.cache.kind = "mask" =>
              plugin.cache.mask = interpret_array(tab, plugin.dqdata)
        /\ plugin.curpxmask.kind = "mask" =>
              plugin.curpxmask.mask = interpret_array(tab, plugin.dqdata)

====
